---- MODULE Spec2Model ----
(***************************************************************************)
(* Model of the AmpliPi Home Assistant integration                         *)
(* (custom_components/amplipi/media_player.py).                            *)
(*                                                                         *)
(* Python strings that the code inspects (substring tests, digit           *)
(* extraction, concatenation) are sequences of one-character strings, so   *)
(* that `in`, re.findall, slicing and f-strings are computed and not       *)
(* assumed.  Python's None is NoneStr where a string is expected and       *)
(* Absent where an object is expected.                                     *)
(***************************************************************************)
EXTENDS Integers, Sequences, FiniteSets, TLC

VARIABLES
    \* ---- stream-name normalizer harness
    stream_rec,      \* the stream record process_stream_names works on
    orig_name,       \* the record's display name before any run
    once_name,       \* the record's name after the first run
    runs,            \* number of runs of process_stream_names so far
    \* ---- name/ID codec harness
    label,           \* the label handed to the codec
    codec_op,        \* which codec ran last ("none" before any)
    codec_ret,       \* [raised |-> exception name or "no", value |-> returned value]
    \* ---- image URL resolver harness
    api_base_path, img_url, url_ret,
    \* ---- entities (the device is the environment: each get_status() is an input)
    src,             \* the AmpliPiSource entity's fields
    src_last,        \* outcome and snapshot of the source entity's last update cycle
    zg,              \* the AmpliPiZone entity's fields (a zone or a group)
    zg_pc,           \* the await at which the zone/group entity's async_update is suspended
    zg_tmp,          \* locals of the suspended async_update
    zg_last,         \* outcome and snapshots of the zone/group entity's last update cycle
    strm,            \* the AmpliPiStream entity's fields
    ann,             \* the AmpliPiAnnouncer entity's fields
    \* ---- service calls (commands) on an entity
    calls,           \* the device calls the last command made, in order
    cmd,             \* the last command: its name, argument, outcome and the entity before it
    \* ---- the host's configuration directory, as install_sensors_yaml sees it
    sensors_dir,     \* whether <config>/sensors exists
    sensors_yaml,    \* <config>/sensors/hacs_amplipi_sensors.yaml: its lines, or Absent
    setups           \* number of set-ups of the integration so far

namesVars == <<stream_rec, orig_name, once_name, runs>>
codecVars == <<label, codec_op, codec_ret>>
urlVars == <<api_base_path, img_url, url_ret>>
srcVars == <<src, src_last>>
zgVars == <<zg, zg_pc, zg_tmp, zg_last>>
strmVars == <<strm>>
annVars == <<ann>>
opVars == <<calls, cmd>>
installVars == <<sensors_dir, sensors_yaml, setups>>
vars == <<namesVars, codecVars, urlVars, srcVars, zgVars, strmVars, annVars, opVars, installVars>>

(***************************************************************************)
(* Strings                                                                 *)
(***************************************************************************)
NoneStr == <<"None">>
Absent == [absent |-> TRUE]

DigitChars == {"0", "1", "2", "3", "4", "5", "6", "7", "8", "9"}

DigitVal(c) ==
    CASE c = "0" -> 0 [] c = "1" -> 1 [] c = "2" -> 2 [] c = "3" -> 3
      [] c = "4" -> 4 [] c = "5" -> 5 [] c = "6" -> 6 [] c = "7" -> 7
      [] c = "8" -> 8 [] c = "9" -> 9

DigitChar(d) ==
    CASE d = 0 -> "0" [] d = 1 -> "1" [] d = 2 -> "2" [] d = 3 -> "3"
      [] d = 4 -> "4" [] d = 5 -> "5" [] d = 6 -> "6" [] d = 7 -> "7"
      [] d = 8 -> "8" [] d = 9 -> "9"

\* str(n) for a natural number n
RECURSIVE IntToStr(_)
IntToStr(n) ==
    IF n < 10 THEN <<DigitChar(n)>>
    ELSE IntToStr(n \div 10) \o <<DigitChar(n % 10)>>

\* int(s) for a non-empty string of decimal digits
RECURSIVE StrToInt(_)
StrToInt(s) ==
    IF Len(s) = 1 THEN DigitVal(s[1])
    ELSE 10 * StrToInt(SubSeq(s, 1, Len(s) - 1)) + DigitVal(s[Len(s)])

\* Python's `a in b` for two strings
IsSubstring(a, b) ==
    \E i \in 1..(Len(b) - Len(a) + 1) : SubSeq(b, i, i + Len(a) - 1) = a

\* number of (possibly overlapping) places where a occurs in b
Occurrences(a, b) ==
    Cardinality({i \in 1..(Len(b) - Len(a) + 1) : SubSeq(b, i, i + Len(a) - 1) = a})

\* Python's s[:n]
Slice(s, n) == SubSeq(s, 1, IF n < Len(s) THEN n ELSE Len(s))

\* ''.join(re.findall(r'\d', s))
FindallDigits(s) == SelectSeq(s, LAMBDA c : c \in DigitChars)

(***************************************************************************)
(* Stream name normalizer                                                  *)
(***************************************************************************)
MARKER == <<"A", "m", "p", "l", "i", "P", "i", " ", "S", "t", "r", "e", "a", "m">>

\* f"AmpliPi Stream {stream.id}: {stream.name}"
PrefixedName(stream) ==
    MARKER \o <<" ">> \o IntToStr(stream.id) \o <<":", " ">> \o stream.name

\* faulty variant: the already-processed test is missing
process_one_always(stream) == [stream EXCEPT !.name = PrefixedName(stream)]

process_one(stream) ==
    IF ~IsSubstring(MARKER, stream.name)
    THEN [stream EXCEPT !.name = PrefixedName(stream)]
    ELSE stream

process_stream_names(streams) ==
    [i \in DOMAIN streams |-> process_one(streams[i])]

(***************************************************************************)
(* Name/ID codec                                                           *)
(***************************************************************************)
Returned(v) == [raised |-> "no", value |-> v]
Raised(e) == [raised |-> e, value |-> NoneStr]

\* faulty variant: the zero-based shift is missing
extract_source_id_no_shift(source) ==
    LET digits == FindallDigits(source)
    IN  IF digits = <<>> THEN Raised("IndexError")
        ELSE Returned(DigitVal(digits[1]))

\* int(''.join(re.findall(r'\d', source))[0]) - 1 : the subscript binds before
\* int(), so only the first digit is converted; subscripting '' raises
extract_source_id_from_name(source) ==
    LET digits == FindallDigits(source)
    IN  IF digits = <<>> THEN Raised("IndexError")
        ELSE Returned(DigitVal(digits[1]) - 1)

\* faulty variant: every id is cut to three digits
process_stream_id_three(stream) ==
    LET processed == FindallDigits(stream)
    IN  IF processed = <<>> THEN Raised("IndexError")
        ELSE IF DigitVal(processed[1]) \in {1, 9} THEN Returned(Slice(processed, 3))
        ELSE Returned(NoneStr)

\* AmpliPiSource.process_stream_id: returns a string of digits, or None after
\* logging an error; processed[0] on '' raises
process_stream_id(stream) ==
    LET processed == FindallDigits(stream)
    IN  IF processed = <<>> THEN Raised("IndexError")
        ELSE IF DigitVal(processed[1]) = 1 THEN Returned(Slice(processed, 4))
        ELSE IF DigitVal(processed[1]) = 9 THEN Returned(Slice(processed, 3))
        ELSE Returned(NoneStr)

(***************************************************************************)
(* Image URL resolver                                                      *)
(***************************************************************************)
SCHEME == <<"h", "t", "t", "p", ":", "/", "/">>

\* validators.url(value), reduced to: an http scheme, a non-empty host that
\* does not start with a slash, and no blank anywhere
validators_url(value) ==
    /\ Len(value) > Len(SCHEME)
    /\ SubSeq(value, 1, Len(SCHEME)) = SCHEME
    /\ value[Len(SCHEME) + 1] # "/"
    /\ \A i \in 1..Len(value) : value[i] # " "

\* faulty variant: the joined URL is returned without being validated
build_url_unchecked(base, path) ==
    IF path = NoneStr THEN NoneStr
    ELSE IF validators_url(path) THEN path
    ELSE base \o <<"/">> \o path

build_url(base, path) ==
    IF path = NoneStr THEN NoneStr
    ELSE IF validators_url(path) THEN path
    ELSE LET new_url == base \o <<"/">> \o path
         IN  IF validators_url(new_url) THEN new_url ELSE NoneStr

\* AmpliPiSource.build_url(self, img_url), with self._image_base_path = base
AmpliPiSource_build_url(base, path) ==
    IF path = NoneStr THEN NoneStr
    ELSE IF validators_url(path) THEN path
    ELSE LET new_url == base \o <<"/">> \o path
         IN  IF validators_url(new_url) THEN new_url ELSE NoneStr

(***************************************************************************)
(* Inputs: display names and labels built from chunks                      *)
(***************************************************************************)
MaxChunks == 2
MaxRuns == 3

Str_Radio == <<"R", "a", "d", "i", "o">>
Str_AmpliPi == <<"A", "m", "p", "l", "i", "P", "i">>
Str_Stream == <<" ", "S", "t", "r", "e", "a", "m">>
Str_Source == <<"S", "o", "u", "r", "c", "e", " ">>

NameChunks ==
    { Str_Radio, <<"9">>, <<" ", "1">>, Str_AmpliPi, Str_Stream,
      <<" ", "9", "9", "6", ":", " ">> }

\* all concatenations of at most n chunks
RECURSIVE Concats(_, _)
Concats(chunks, n) ==
    IF n = 0 THEN {<<>>}
    ELSE LET shorter == Concats(chunks, n - 1)
         IN  shorter \cup {a \o b : a \in shorter, b \in chunks}

DisplayNames == Concats(NameChunks, MaxChunks)

\* stream ids: RCA inputs (996..999), created streams (1000 and up), and ids
\* outside the ranges the code was written for
StreamIds == {996, 999, 1000, 1001, 12, 2000, 10000, 90}

(***************************************************************************)
(* Idle values of the harnesses and entities a specification leaves alone  *)
(***************************************************************************)
NamesIdle ==
    /\ stream_rec = [id |-> 0, name |-> <<>>]
    /\ orig_name = <<>>
    /\ once_name = <<>>
    /\ runs = 0

CodecIdle ==
    /\ label = [text |-> <<>>, kind |-> "plain", n |-> 0]
    /\ codec_op = "none"
    /\ codec_ret = Returned(NoneStr)

UrlIdle ==
    /\ api_base_path = <<>>
    /\ img_url = NoneStr
    /\ url_ret = [by |-> "none", value |-> NoneStr]

SrcIdle ==
    /\ src = Absent
    /\ src_last = Absent

ZgIdle ==
    /\ zg = Absent
    /\ zg_pc = "idle"
    /\ zg_tmp = Absent
    /\ zg_last = Absent

StrmIdle == strm = Absent

AnnIdle == ann = Absent

OpIdle ==
    /\ calls = <<>>
    /\ cmd = Absent

InstallIdle ==
    /\ sensors_dir = FALSE
    /\ sensors_yaml = Absent
    /\ setups = 0

(***************************************************************************)
(* Specification SpecNames: process_stream_names run again and again on    *)
(* one stream record, as happens on every refresh                          *)
(***************************************************************************)
InitNames ==
    /\ \E id \in StreamIds, name \in DisplayNames :
          /\ stream_rec = [id |-> id, name |-> name]
          /\ orig_name = name
    /\ once_name = <<>>
    /\ runs = 0
    /\ CodecIdle /\ UrlIdle /\ SrcIdle /\ ZgIdle /\ StrmIdle /\ AnnIdle /\ OpIdle /\ InstallIdle

ProcessStreamNames ==
    /\ runs < MaxRuns
    /\ stream_rec' = process_stream_names(<<stream_rec>>)[1]
    /\ once_name' = IF runs = 0 THEN stream_rec'.name ELSE once_name
    /\ runs' = runs + 1
    /\ UNCHANGED <<orig_name, codecVars, urlVars, srcVars, zgVars, strmVars, annVars, opVars, installVars>>

NextNames == ProcessStreamNames

SpecNames == InitNames /\ [][NextNames]_vars

\* the prefix "AmpliPi Stream {id}:" of a stream id
IdPrefix(id) == MARKER \o <<" ">> \o IntToStr(id) \o <<":">>

\* C1: running process_stream_names a second (third, ...) time on a record
\* leaves the name it had after the first run
C1_Idempotent == runs >= 1 => stream_rec.name = once_name

\* C1 witness: a name that was prefixed by the first run has been processed again
C1_Witness ==
    /\ runs >= 2
    /\ ~IsSubstring(MARKER, orig_name)
    /\ stream_rec.name # orig_name

\* C2: after one or more runs the name carries "AmpliPi Stream {id}:" with the
\* record's own id exactly once, whatever the original name was
C2_PrefixExactlyOnce ==
    runs >= 1 => Occurrences(IdPrefix(stream_rec.id), stream_rec.name) = 1

(***************************************************************************)
(* Specification SpecCodec: the name/ID codec applied to one label         *)
(***************************************************************************)
SourceNumbers == {1, 2, 3, 4, 10, 12, 23}

SourceLabels ==
    {[text |-> Str_Source \o IntToStr(k), kind |-> "source", n |-> k] : k \in SourceNumbers}

\* names as process_stream_names leaves them in the entity's stream cache
StreamLabels ==
    {[text |-> PrefixedName([id |-> id, name |-> name]), kind |-> "stream", n |-> id] :
        id \in StreamIds, name \in DisplayNames}

PlainLabels ==
    {[text |-> t, kind |-> "plain", n |-> 0] : t \in DisplayNames \cup {<<"N", "o", "n", "e">>}}

Labels == SourceLabels \cup StreamLabels \cup PlainLabels

InitCodec ==
    /\ label \in Labels
    /\ codec_op = "none"
    /\ codec_ret = Returned(NoneStr)
    /\ NamesIdle /\ UrlIdle /\ SrcIdle /\ ZgIdle /\ StrmIdle /\ AnnIdle /\ OpIdle /\ InstallIdle

ExtractSourceIdFromName ==
    /\ codec_op = "none"
    /\ codec_op' = "extract_source_id_from_name"
    /\ codec_ret' = extract_source_id_from_name(label.text)
    /\ UNCHANGED <<label, namesVars, urlVars, srcVars, zgVars, strmVars, annVars, opVars, installVars>>

ProcessStreamId ==
    /\ codec_op = "none"
    /\ codec_op' = "process_stream_id"
    /\ codec_ret' = process_stream_id(label.text)
    /\ UNCHANGED <<label, namesVars, urlVars, srcVars, zgVars, strmVars, annVars, opVars, installVars>>

NextCodec == ExtractSourceIdFromName \/ ProcessStreamId

SpecCodec == InitCodec /\ [][NextCodec]_vars

HasDigit(s) == FindallDigits(s) # <<>>

\* the first maximal run of decimal digits of a string that has a digit
FirstDigitRun(s) ==
    LET first == CHOOSE i \in 1..Len(s) :
                    s[i] \in DigitChars /\ \A j \in 1..(i - 1) : s[j] \notin DigitChars
        last == CHOOSE k \in first..Len(s) :
                    /\ \A j \in first..k : s[j] \in DigitChars
                    /\ k = Len(s) \/ s[k + 1] \notin DigitChars
    IN  SubSeq(s, first, last)

\* C6 as claimed: for every label with a digit, extract_source_id_from_name
\* returns the integer value of the first digit run minus one
C6_FirstRunMinusOne ==
    (codec_op = "extract_source_id_from_name" /\ HasDigit(label.text))
        => codec_ret = Returned(StrToInt(FirstDigitRun(label.text)) - 1)

\* C6 amended: for every label with a digit, extract_source_id_from_name returns
\* the value of the first decimal digit minus one, without raising
C6_FirstDigitMinusOne ==
    (codec_op = "extract_source_id_from_name" /\ HasDigit(label.text))
        => codec_ret = Returned(DigitVal(FirstDigitRun(label.text)[1]) - 1)

\* C6 witness: a source label whose first digit run has two digits was decoded
C6_Witness ==
    /\ codec_op = "extract_source_id_from_name"
    /\ label.kind = "source"
    /\ Len(FirstDigitRun(label.text)) = 2
    /\ codec_ret.raised = "no"

\* C7 as claimed: process_stream_id returns the id of every normalized stream name
C7_ReturnsId ==
    (codec_op = "process_stream_id" /\ label.kind = "stream")
        => codec_ret = Returned(IntToStr(label.n))

InCodecRange(id) == id \in 1000..1999 \/ id \in 900..999

\* C7 amended: for a normalized stream name whose id has four digits starting
\* with 1 or three digits starting with 9, process_stream_id returns the id's
\* decimal digits, whatever digits the display name holds
C7_ReturnsIdInRange ==
    (codec_op = "process_stream_id" /\ label.kind = "stream" /\ InCodecRange(label.n))
        => codec_ret = Returned(IntToStr(label.n))

\* C7 witness: a four-digit id was decoded from a name that has digits of its own
C7_Witness ==
    /\ codec_op = "process_stream_id"
    /\ label.kind = "stream"
    /\ label.n = 1001
    /\ Len(FindallDigits(label.text)) > 4
    /\ codec_ret = Returned(IntToStr(1001))

\* C8: on a label without any decimal digit the codec returns None and does
\* not raise
C8_NoDigitReturnsNone ==
    (codec_op # "none" /\ ~HasDigit(label.text)) => codec_ret = Returned(NoneStr)

(***************************************************************************)
(* Specification SpecUrl: the image URL resolver applied to one path       *)
(***************************************************************************)
UrlChunks == { SCHEME, <<"x">>, <<"/", "y">>, <<" ">>, <<"a", ".", "j">> }

ImgUrls == {NoneStr} \cup Concats(UrlChunks, MaxChunks)

BasePaths ==
    { SCHEME \o <<"h", "/", "a", "p", "i">>, SCHEME \o <<"h", "/">>,
      <<"n", "o", " ", "b">>, <<>> }

InitUrl ==
    /\ api_base_path \in BasePaths
    /\ img_url \in ImgUrls
    /\ url_ret = [by |-> "none", value |-> NoneStr]
    /\ NamesIdle /\ CodecIdle /\ SrcIdle /\ ZgIdle /\ StrmIdle /\ AnnIdle /\ OpIdle /\ InstallIdle

BuildUrl ==
    /\ url_ret.by = "none"
    /\ url_ret' = [by |-> "build_url", value |-> build_url(api_base_path, img_url)]
    /\ UNCHANGED <<api_base_path, img_url, namesVars, codecVars, srcVars, zgVars, strmVars, annVars, opVars, installVars>>

SourceBuildUrl ==
    /\ url_ret.by = "none"
    /\ url_ret' = [by |-> "AmpliPiSource.build_url",
                   value |-> AmpliPiSource_build_url(api_base_path, img_url)]
    /\ UNCHANGED <<api_base_path, img_url, namesVars, codecVars, srcVars, zgVars, strmVars, annVars, opVars, installVars>>

NextUrl == BuildUrl \/ SourceBuildUrl

SpecUrl == InitUrl /\ [][NextUrl]_vars

Joined == api_base_path \o <<"/">> \o img_url

\* C9: build_url returns absent for an absent path, a well-formed path
\* unchanged, otherwise base + '/' + path if that is well-formed and absent if
\* not; so the result is absent or a well-formed URL
C9_BuildUrl ==
    url_ret.by # "none" =>
        /\ img_url = NoneStr => url_ret.value = NoneStr
        /\ (img_url # NoneStr /\ validators_url(img_url)) => url_ret.value = img_url
        /\ (img_url # NoneStr /\ ~validators_url(img_url) /\ validators_url(Joined))
              => url_ret.value = Joined
        /\ (img_url # NoneStr /\ ~validators_url(img_url) /\ ~validators_url(Joined))
              => url_ret.value = NoneStr
        /\ url_ret.value = NoneStr \/ validators_url(url_ret.value)

\* C9 witness: a relative path was resolved against the base path
C9_Witness ==
    /\ url_ret.by = "build_url"
    /\ img_url # NoneStr
    /\ ~validators_url(img_url)
    /\ url_ret.value = Joined

(***************************************************************************)
(* Device records and status snapshots                                     *)
(***************************************************************************)
Str_playing == <<"p", "l", "a", "y", "i", "n", "g">>
Str_paused == <<"p", "a", "u", "s", "e", "d">>
Str_stopped == <<"s", "t", "o", "p", "p", "e", "d">>
Str_local == <<"l", "o", "c", "a", "l">>
Str_None == <<"N", "o", "n", "e">>
Str_stream_eq == <<"s", "t", "r", "e", "a", "m", "=">>

STATE_UNKNOWN == "unknown"
STATE_IDLE == "idle"
STATE_PLAYING == "playing"
STATE_PAUSED == "paused"

\* values of a source's info.state: absent, the three the device documents,
\* and strings that are none of them
InfoStates ==
    { NoneStr, Str_playing, Str_paused, Str_stopped, <<>>,
      <<"p", "a", "u", "s", "e">>, <<"p", "l", "a", "y">>, <<"o", "f", "f">> }

Info(st, track) == [state |-> st, track |-> track, name |-> <<"N">>]

Infos ==
    {Absent} \cup {Info(st, NoneStr) : st \in InfoStates} \cup {Info(Str_playing, <<"T">>)}

\* f"Source {id + 1}", the name the device gives its sources
SourceName(id) == Str_Source \o IntToStr(id + 1)

Source(id, input, info) ==
    [id |-> id, name |-> SourceName(id), input |-> input, info |-> info]

Stream(id, name) == [id |-> id, name |-> name]

Zone(id, source_id, disabled) ==
    [id |-> id, name |-> <<"Z">> \o IntToStr(id), source_id |-> source_id, disabled |-> disabled]

\* a group's zones is the list of its member zone ids
Group(id, source_id, zones) ==
    [id |-> id, name |-> <<"G">> \o IntToStr(id), source_id |-> source_id, zones |-> zones]

Status(sources, zones, groups, streams) ==
    [sources |-> sources, zones |-> zones, groups |-> groups, streams |-> streams]

\* the outcome of a get_status() call that raised
FetchFailed == [failed |-> TRUE]

\* next(filter(test, seq), default), with hits the indices that pass the test
FirstMatch(seq, hits, default) ==
    IF hits = {} THEN default
    ELSE seq[CHOOSE i \in hits : \A j \in hits : i <= j]

\* s.split('=')[1] for a string that holds an '='
SplitEq1(s) ==
    LET eqs == {i \in 1..Len(s) : s[i] = "="}
        first == CHOOSE i \in eqs : \A j \in eqs : i <= j
        later == {i \in eqs : i > first}
        stop == IF later = {} THEN Len(s) + 1
                ELSE CHOOSE i \in later : \A j \in later : i <= j
    IN  SubSeq(s, first + 1, stop - 1)

\* the test both sync_state methods use for "this source plays a stream"
HasStreamInput(input) ==
    /\ IsSubstring(Str_stream_eq, input)
    /\ ~IsSubstring(Str_stream_eq \o Str_local, input)

(***************************************************************************)
(* AmpliPiSource                                                           *)
(***************************************************************************)
AmpliPiSource_init(source, streams) ==
    [ _id |-> source.id,
      _streams |-> process_stream_names(streams),
      _current_stream |-> Absent,
      _zones |-> <<>>,
      _groups |-> <<>>,
      _name |-> Str_Source \o IntToStr(source.id + 1),
      _source |-> source,
      _last_update_successful |-> FALSE,
      _attr_media_title |-> NoneStr ]

\* faulty variant: the fetched source record is not stored
AmpliPiSource_sync_state_keeps_source(self, state, streams, zones, groups) ==
    [ self EXCEPT !._last_update_successful = TRUE ]

\* faulty variant: the last-update-successful flag is left as it was
AmpliPiSource_sync_state_keeps_flag(self, state, streams, zones, groups) ==
    [ self EXCEPT
        !._source = state,
        !._streams = process_stream_names(streams),
        !._zones = zones,
        !._groups = groups,
        !._name = state.name ]

AmpliPiSource_sync_state(self, state, streams, zones, groups) ==
    LET new_streams == process_stream_names(streams)
        current_stream ==
            IF HasStreamInput(state.input)
            THEN LET stream_id == StrToInt(SplitEq1(state.input))
                 IN  FirstMatch(new_streams, {i \in DOMAIN new_streams : new_streams[i].id = stream_id}, Absent)
            ELSE Absent
        info == state.info
    IN  [ self EXCEPT
            !._source = state,
            !._streams = new_streams,
            !._current_stream = current_stream,
            !._zones = zones,
            !._groups = groups,
            !._last_update_successful = TRUE,
            !._name = state.name,
            !._attr_media_title =
                IF info # Absent
                THEN (IF info.track = NoneStr THEN info.name ELSE info.track)
                ELSE NoneStr ]

\* faulty variant: a failed or fruitless fetch leaves the flag as it was
AmpliPiSource_async_update_keeps_flag(self, fetched) ==
    IF fetched = FetchFailed THEN self
    ELSE LET source == FirstMatch(fetched.sources, {i \in DOMAIN fetched.sources : fetched.sources[i].id = self._source.id}, Absent)
         IN  IF source = Absent THEN self
             ELSE AmpliPiSource_sync_state(self, source, fetched.streams,
                      SelectSeq(fetched.zones, LAMBDA z : z.source_id = self._source.id),
                      SelectSeq(fetched.groups, LAMBDA z : z.source_id = self._source.id))

\* faulty variant: a failed or fruitless fetch also empties the cached view
AmpliPiSource_async_update_forgets(self, fetched) ==
    LET source == IF fetched = FetchFailed THEN Absent
                  ELSE FirstMatch(fetched.sources, {i \in DOMAIN fetched.sources : fetched.sources[i].id = self._source.id}, Absent)
    IN  IF source = Absent
        THEN [self EXCEPT !._last_update_successful = FALSE,
                          !._current_stream = Absent,
                          !._zones = <<>>,
                          !._groups = <<>>,
                          !._attr_media_title = NoneStr]
        ELSE AmpliPiSource_sync_state(self, source, fetched.streams,
                 SelectSeq(fetched.zones, LAMBDA z : z.source_id = self._source.id),
                 SelectSeq(fetched.groups, LAMBDA z : z.source_id = self._source.id))

\* the entity after async_update whose get_status() gave `fetched`
AmpliPiSource_async_update(self, fetched) ==
    IF fetched = FetchFailed
    THEN [self EXCEPT !._last_update_successful = FALSE]
    ELSE LET source == FirstMatch(fetched.sources, {i \in DOMAIN fetched.sources : fetched.sources[i].id = self._source.id}, Absent)
         IN  IF source = Absent
             THEN [self EXCEPT !._last_update_successful = FALSE]
             ELSE AmpliPiSource_sync_state(self, source, fetched.streams,
                      SelectSeq(fetched.zones, LAMBDA z : z.source_id = self._source.id),
                      SelectSeq(fetched.groups, LAMBDA z : z.source_id = self._source.id))

\* The state properties test `info.state in ('paused')`: the parentheses make
\* no tuple, so `in` is a substring test against the string 'paused'.
AmpliPiSource_state(self) ==
    IF self._last_update_successful = FALSE THEN STATE_UNKNOWN
    ELSE IF self._source = Absent \/ self._source.info = Absent
            \/ self._source.info.state = NoneStr THEN STATE_IDLE
    ELSE IF IsSubstring(self._source.info.state, Str_paused) THEN STATE_PAUSED
    ELSE IF IsSubstring(self._source.info.state, Str_playing) THEN STATE_PLAYING
    ELSE IF IsSubstring(self._source.info.state, Str_stopped) THEN STATE_IDLE
    ELSE STATE_IDLE

(***************************************************************************)
(* AmpliPiZone (a zone, or a group of zones)                               *)
(***************************************************************************)
\* an attribute no statement has assigned yet
Unset == [unset |-> TRUE]

AmpliPiZone_init(zone, group, streams, sources) ==
    [ _current_source |-> Absent,
      _sources |-> sources,
      _is_group |-> group # Absent,
      _id |-> IF group # Absent THEN group.id ELSE zone.id,
      _name |-> IF group # Absent THEN group.name ELSE zone.name,
      _streams |-> process_stream_names(streams),
      _zone |-> zone,
      _group |-> group,
      _enabled |-> FALSE,
      _last_update_successful |-> FALSE,
      _available |-> FALSE,
      _extra_attributes |-> <<>>,
      _current_stream |-> Unset,
      _attr_media_title |-> NoneStr ]

\* the ids appended by the nested loops of _get_extra_attributes: members of
\* the CACHED group that the fetched status lists as not disabled
EnabledMemberIds(members, state) ==
    SelectSeq(members,
        LAMBDA zone_id : \E i \in DOMAIN state.zones :
            state.zones[i].id = zone_id /\ ~state.zones[i].disabled)

\* _get_extra_attributes of a group, its get_status() having returned `state`
AmpliPiZone_get_extra_attributes_group(self, state) ==
    [self EXCEPT !._extra_attributes =
        [amplipi_zones |-> EnabledMemberIds(self._group.zones, state)]]

\* _get_extra_attributes of a zone: no device call
AmpliPiZone_get_extra_attributes_zone(self) ==
    [self EXCEPT !._extra_attributes = [amplipi_zone_id |-> self._zone.id]]

\* _update_available, its get_status() having returned `state`; self._group and
\* self._zone are still the records of the previous update: sync_state runs later
AmpliPiZone_update_available(self, state) ==
    IF self._is_group
    THEN \E k \in DOMAIN self._group.zones : \E i \in DOMAIN state.zones :
            state.zones[i].id = self._group.zones[k] /\ ~state.zones[i].disabled
    ELSE IF self._zone = Absent \/ self._zone.disabled THEN FALSE
    ELSE TRUE

\* a faulty variant of sync_state: without a matching source the current
\* source and the title of the previous update stay
AmpliPiZone_sync_state_keeps_source(self, zone, group, streams, sources, enabled) ==
    LET owner == IF self._is_group THEN group.source_id ELSE zone.source_id
        current_source ==
            FirstMatch(sources, {i \in DOMAIN sources : owner = sources[i].id}, self._current_source)
    IN  [ self EXCEPT
            !._zone = zone,
            !._group = group,
            !._streams = process_stream_names(streams),
            !._sources = sources,
            !._last_update_successful = TRUE,
            !._enabled = enabled,
            !._current_source = current_source ]

AmpliPiZone_sync_state(self, zone, group, streams, sources, enabled) ==
    LET new_streams == process_stream_names(streams)
        current_source ==
            IF self._is_group
            THEN FirstMatch(sources, {i \in DOMAIN sources : group.source_id = sources[i].id}, Absent)
            ELSE FirstMatch(sources, {i \in DOMAIN sources : zone.source_id = sources[i].id}, Absent)
        info == IF current_source # Absent THEN current_source.info ELSE Absent
    IN  [ self EXCEPT
            !._zone = zone,
            !._group = group,
            !._streams = new_streams,
            !._sources = sources,
            !._last_update_successful = TRUE,
            !._enabled = enabled,
            !._current_source = current_source,
            !._current_stream =
                IF current_source # Absent /\ HasStreamInput(current_source.input)
                THEN LET stream_id == StrToInt(SplitEq1(current_source.input))
                     IN  FirstMatch(new_streams, {i \in DOMAIN new_streams : new_streams[i].id = stream_id}, Absent)
                ELSE self._current_stream,
            !._attr_media_title = IF info # Absent THEN info.name ELSE NoneStr ]

\* the locals of async_update after its own get_status() returned `state`
\* (Absent when the entity's zone or group is not in it)
AmpliPiZone_update_locals(self, state) ==
    IF self._is_group
    THEN LET group == FirstMatch(state.groups, {i \in DOMAIN state.groups : state.groups[i].id = self._id}, Absent)
         IN  IF group = Absent THEN Absent
             ELSE [ zone |-> Absent, group |-> group, state |-> state,
                    enabled |-> \E i \in DOMAIN state.zones :
                                   \E k \in DOMAIN group.zones : state.zones[i].id = group.zones[k] ]
    ELSE LET zone == FirstMatch(state.zones, {i \in DOMAIN state.zones : state.zones[i].id = self._id}, Absent)
         IN  IF zone = Absent THEN Absent
             ELSE [ zone |-> zone, group |-> Absent, state |-> state,
                    enabled |-> ~zone.disabled ]

AmpliPiZone_state(self) ==
    IF self._last_update_successful = FALSE THEN STATE_UNKNOWN
    ELSE IF self._current_source = Absent \/ self._current_source.info = Absent
            \/ self._current_source.info.state = NoneStr THEN STATE_IDLE
    ELSE IF IsSubstring(self._current_source.info.state, Str_paused) THEN STATE_PAUSED
    ELSE IF IsSubstring(self._current_source.info.state, Str_playing) THEN STATE_PLAYING
    ELSE IF IsSubstring(self._current_source.info.state, Str_stopped) THEN STATE_IDLE
    ELSE STATE_IDLE

AmpliPiZone_available(self) == self._available

(***************************************************************************)
(* Specification SpecSource: one AmpliPiSource entity, polled; every       *)
(* get_status() answer is an input                                         *)
(***************************************************************************)
SourceInputs ==
    { Str_local, Str_None, Str_stream_eq \o IntToStr(1000), Str_stream_eq \o IntToStr(996) }

OtherSource == Source(1, Str_local, Info(Str_paused, NoneStr))

SrcSourceLists ==
    UNION { { <<Source(0, input, info), OtherSource>>, <<OtherSource, Source(0, input, info)>> } :
                input \in SourceInputs, info \in Infos }
      \cup { <<OtherSource>>, <<>> }

SrcStreamLists ==
    { <<>>, <<Stream(996, <<"I", "n">>), Stream(1000, Str_Radio)>> }

SrcZoneLists == { <<>>, <<Zone(0, 1, FALSE), Zone(1, 0, FALSE)>> }

SrcGroupLists == { <<>>, <<Group(0, 0, <<1>>)>> }

SrcSnapshots ==
    { Status(sources, zones, groups, streams) :
        sources \in SrcSourceLists, zones \in SrcZoneLists,
        groups \in SrcGroupLists, streams \in SrcStreamLists }

\* async_setup_entry: one AmpliPiSource per source of the first status
InitSource ==
    /\ \E first \in SrcSnapshots : \E i \in DOMAIN first.sources :
          src = AmpliPiSource_init(first.sources[i], first.streams)
    /\ src_last = [outcome |-> "none", source |-> Absent, had_ok |-> FALSE]
    /\ NamesIdle /\ CodecIdle /\ UrlIdle /\ ZgIdle /\ StrmIdle /\ AnnIdle /\ OpIdle /\ InstallIdle

\* the source of a fetched status that carries the entity's id
OwnSource(fetched) == FirstMatch(fetched.sources, {i \in DOMAIN fetched.sources : fetched.sources[i].id = src._id}, Absent)

\* a poll whose get_status() raises
SrcPollFails ==
    /\ src' = AmpliPiSource_async_update(src, FetchFailed)
    /\ src_last' = [outcome |-> "failed", source |-> Absent, had_ok |-> src_last.had_ok]
    /\ UNCHANGED <<namesVars, codecVars, urlVars, zgVars, strmVars, annVars, opVars, installVars>>

\* a poll whose get_status() returns a status
SrcPoll ==
    \E fetched \in SrcSnapshots :
        /\ src' = AmpliPiSource_async_update(src, fetched)
        /\ src_last' =
              IF OwnSource(fetched) = Absent
              THEN [outcome |-> "missing", source |-> Absent, had_ok |-> src_last.had_ok]
              ELSE [outcome |-> "ok", source |-> OwnSource(fetched), had_ok |-> TRUE]
        /\ UNCHANGED <<namesVars, codecVars, urlVars, zgVars, strmVars, annVars, opVars, installVars>>

NextSource == SrcPollFails \/ SrcPoll

SpecSource == InitSource /\ [][NextSource]_vars

\* C3: when the source entity's last update cycle had a failing fetch, or a
\* status without a source of its id, its state is unknown
C3_UnknownAfterFailedPoll ==
    src_last.outcome \in {"failed", "missing"} => AmpliPiSource_state(src) = STATE_UNKNOWN

\* C3 witness: a fetch failed while the cache, filled by an earlier successful
\* update, holds a playing source
C3_Witness ==
    /\ src_last.outcome = "failed"
    /\ src_last.had_ok
    /\ src._source.info # Absent
    /\ src._source.info.state = Str_playing
    /\ AmpliPiSource_state(src) = STATE_UNKNOWN

\* C4: after a successful update from a status in which the source has no info
\* record, the source entity's state is idle
C4_IdleWithoutInfo ==
    (src_last.outcome = "ok" /\ src_last.source.info = Absent)
        => AmpliPiSource_state(src) = STATE_IDLE

\* C4 witness: the source has a stream as input, zones and a group, and no info
C4_Witness ==
    /\ src_last.outcome = "ok"
    /\ src_last.source.info = Absent
    /\ HasStreamInput(src_last.source.input)
    /\ src._current_stream # Absent
    /\ src._zones # <<>>
    /\ src._groups # <<>>
    /\ AmpliPiSource_state(src) = STATE_IDLE

\* the state the claim derives from an info record
ClaimedState(info) ==
    IF info = Absent THEN STATE_IDLE
    ELSE IF info.state = Str_playing THEN STATE_PLAYING
    ELSE IF info.state = Str_paused THEN STATE_PAUSED
    ELSE STATE_IDLE

\* C5: after a successful update the state is playing exactly for
\* info.state = 'playing', paused exactly for 'paused', idle for anything else
C5_StateMapping ==
    src_last.outcome = "ok" => AmpliPiSource_state(src) = ClaimedState(src_last.source.info)

\* C30: a poll of a source entity whose status fetch fails, or whose status
\* has no source of the entity's id, clears the last-update-successful flag
\* and changes nothing else: source record, stream list, current stream,
\* zones, groups, name and media title stay
C30_FailedUpdateChangesOnlyFlag ==
    [][ src_last'.outcome \in {"failed", "missing"} =>
            /\ src'._last_update_successful = FALSE
            /\ src'._source = src._source
            /\ src'._id = src._id
            /\ src'._streams = src._streams
            /\ src'._current_stream = src._current_stream
            /\ src'._zones = src._zones
            /\ src'._groups = src._groups
            /\ src'._name = src._name
            /\ src'._attr_media_title = src._attr_media_title ]_vars

\* a fruitless poll of an entity that holds a current stream, zones and a
\* media title from an earlier status
C30_Witness ==
    /\ src_last.outcome \in {"failed", "missing"}
    /\ src_last.had_ok
    /\ src._last_update_successful = FALSE
    /\ src._current_stream # Absent
    /\ src._zones # <<>>
    /\ src._attr_media_title # NoneStr

(***************************************************************************)
(* Specification SpecZone: one AmpliPiZone entity (a zone or a group),     *)
(* polled.  async_update awaits get_status() up to three times; each       *)
(* answer is an input, and the steps between the awaits are the actions.   *)
(***************************************************************************)
ZgZoneLists ==
    { <<Zone(0, 0, d0), Zone(1, 0, d1)>> : d0 \in BOOLEAN, d1 \in BOOLEAN }
      \cup { <<Zone(1, 0, FALSE)>> }

ZgGroupLists ==
    { <<Group(0, 0, members)>> : members \in {<<>>, <<0>>, <<1>>, <<0, 1>>} } \cup { <<>> }

ZgSourceLists ==
    { <<>>,
      <<Source(0, Str_local, Absent)>>,
      <<Source(0, Str_stream_eq \o IntToStr(1000), Info(Str_playing, NoneStr))>> }

ZgStreamLists == { <<Stream(1000, Str_Radio)>> }

ZgSnapshots ==
    { Status(sources, zones, groups, streams) :
        sources \in ZgSourceLists, zones \in ZgZoneLists,
        groups \in ZgGroupLists, streams \in ZgStreamLists }

\* async_setup_entry: one AmpliPiZone per zone and per group of the first status
InitZone ==
    /\ \E first \in ZgSnapshots :
          \/ \E i \in DOMAIN first.zones :
                zg = AmpliPiZone_init(first.zones[i], Absent, first.streams, first.sources)
          \/ \E i \in DOMAIN first.groups :
                zg = AmpliPiZone_init(Absent, first.groups[i], first.streams, first.sources)
    /\ zg_pc = "idle"
    /\ zg_tmp = Absent
    /\ zg_last = [outcome |-> "none", expected |-> FALSE, stable |-> TRUE]
    /\ NamesIdle /\ CodecIdle /\ UrlIdle /\ SrcIdle /\ StrmIdle /\ AnnIdle /\ OpIdle /\ InstallIdle

\* what the claims say `available` should be after an update from status S
ExpectedAvailable(locals) ==
    IF locals.group # Absent
    THEN \E k \in DOMAIN locals.group.zones : \E i \in DOMAIN locals.state.zones :
            locals.state.zones[i].id = locals.group.zones[k] /\ ~locals.state.zones[i].disabled
    ELSE ~locals.zone.disabled

\* async_update starts and its get_status() raises: caught, flag cleared
ZgFetchFails ==
    /\ zg_pc = "idle"
    /\ zg' = [zg EXCEPT !._last_update_successful = FALSE]
    /\ zg_last' = [outcome |-> "failed", expected |-> FALSE, stable |-> TRUE]
    /\ UNCHANGED <<zg_pc, zg_tmp, namesVars, codecVars, urlVars, srcVars, strmVars, annVars, opVars, installVars>>

\* async_update starts and its get_status() returns: up to the next await
ZgFetch ==
    /\ zg_pc = "idle"
    /\ \E state \in ZgSnapshots :
          LET locals == AmpliPiZone_update_locals(zg, state)
          IN  IF locals = Absent
              THEN /\ zg' = [zg EXCEPT !._last_update_successful = FALSE]
                   /\ zg_last' = [outcome |-> "missing", expected |-> FALSE, stable |-> TRUE]
                   /\ UNCHANGED <<zg_pc, zg_tmp>>
              ELSE /\ zg_tmp' = locals
                   /\ zg_last' = [outcome |-> "running", expected |-> ExpectedAvailable(locals),
                                  stable |-> TRUE]
                   /\ IF zg._is_group
                      THEN zg_pc' = "extra" /\ zg' = zg
                      ELSE /\ zg_pc' = "available"
                           /\ zg' = AmpliPiZone_get_extra_attributes_zone(zg)
    /\ UNCHANGED <<namesVars, codecVars, urlVars, srcVars, strmVars, annVars, opVars, installVars>>

\* the get_status() of _get_extra_attributes raises: nothing catches it
ZgExtraFails ==
    /\ zg_pc = "extra"
    /\ zg_pc' = "idle"
    /\ zg_tmp' = Absent
    /\ zg_last' = [zg_last EXCEPT !.outcome = "raised"]
    /\ UNCHANGED <<zg, namesVars, codecVars, urlVars, srcVars, strmVars, annVars, opVars, installVars>>

\* the get_status() of _get_extra_attributes returns (a group only)
ZgExtra ==
    /\ zg_pc = "extra"
    /\ \E zones \in ZgZoneLists :
          /\ zg' = AmpliPiZone_get_extra_attributes_group(zg, [zg_tmp.state EXCEPT !.zones = zones])
          /\ zg_last' = [zg_last EXCEPT !.stable = @ /\ zones = zg_tmp.state.zones]
    /\ zg_pc' = "available"
    /\ UNCHANGED <<zg_tmp, namesVars, codecVars, urlVars, srcVars, strmVars, annVars, opVars, installVars>>

\* the get_status() of _update_available raises: nothing catches it
ZgAvailableFails ==
    /\ zg_pc = "available"
    /\ zg_pc' = "idle"
    /\ zg_tmp' = Absent
    /\ zg_last' = [zg_last EXCEPT !.outcome = "raised"]
    /\ UNCHANGED <<zg, namesVars, codecVars, urlVars, srcVars, strmVars, annVars, opVars, installVars>>

\* the get_status() of _update_available returns; then sync_state
ZgAvailable ==
    /\ zg_pc = "available"
    /\ \E zones \in ZgZoneLists :
          LET state == [zg_tmp.state EXCEPT !.zones = zones]
              available == AmpliPiZone_update_available(zg, state)
          IN  /\ zg' = AmpliPiZone_sync_state([zg EXCEPT !._available = available],
                          zg_tmp.zone, zg_tmp.group, zg_tmp.state.streams,
                          zg_tmp.state.sources, zg_tmp.enabled)
              /\ zg_last' = [zg_last EXCEPT !.outcome = "ok",
                                            !.stable = @ /\ zones = zg_tmp.state.zones]
    /\ zg_pc' = "idle"
    /\ zg_tmp' = Absent
    /\ UNCHANGED <<namesVars, codecVars, urlVars, srcVars, strmVars, annVars, opVars, installVars>>

NextZone ==
    \/ ZgFetchFails
    \/ ZgFetch
    \/ ZgExtraFails
    \/ ZgExtra
    \/ ZgAvailableFails
    \/ ZgAvailable

SpecZone == InitZone /\ [][NextZone]_vars

\* C10: after a successful update of a group entity from status S (all
\* get_status() calls of the cycle returned the zones of S), available is TRUE
\* if a member zone of the group in S is enabled in S, and FALSE if none is
C10_GroupAvailable ==
    (zg_pc = "idle" /\ zg_last.outcome = "ok" /\ zg._is_group /\ zg_last.stable)
        => AmpliPiZone_available(zg) = zg_last.expected

\* C11: after a successful update of a zone entity from status S, available is
\* TRUE exactly when the zone's record in S is not disabled
C11_ZoneAvailable ==
    (zg_pc = "idle" /\ zg_last.outcome = "ok" /\ ~zg._is_group)
        => (AmpliPiZone_available(zg) = zg_last.expected)

\* the entity was just updated from a status in which the source id of its
\* zone or group record is the id of no source
ZgDanglingOwner ==
    /\ zg_pc = "idle" /\ zg_last.outcome = "ok"
    /\ LET owner == IF zg._is_group THEN zg._group.source_id ELSE zg._zone.source_id
       IN  \A i \in DOMAIN zg._sources : zg._sources[i].id # owner

\* C22 as stated: after a successful update from a status in which the owning
\* source id matches no source, the entity is unavailable
C22_DanglingOwnerUnavailable ==
    ZgDanglingOwner => AmpliPiZone_available(zg) = FALSE

\* C22 amended: after a successful update from a status in which the owning
\* source id matches no source, the entity has no current source and its
\* state is idle
C22_DanglingOwnerIdle ==
    ZgDanglingOwner => (zg._current_source = Absent /\ AmpliPiZone_state(zg) = STATE_IDLE)

\* an available entity updated after it had a current source, from a status
\* without its owning source
C22_Witness ==
    ZgDanglingOwner /\ AmpliPiZone_available(zg) /\ zg._current_stream # Unset

\* C23: when a get_status() of an update cycle of a zone or group entity
\* failed (the one of async_update, of _get_extra_attributes or of
\* _update_available), the update returned without raising, the
\* last-update-successful flag is cleared and the state is unknown
C23_FetchFailureClearsFlag ==
    (zg_pc = "idle" /\ zg_last.outcome \in {"failed", "raised"}) =>
        /\ zg_last.outcome # "raised"
        /\ zg._last_update_successful = FALSE
        /\ AmpliPiZone_state(zg) = STATE_UNKNOWN

\* C27: after a successful update of a zone or group entity the cached
\* current stream is the stream that the status attaches to the entity's
\* current source, and it is absent when the entity has no current source or
\* the source has no stream attached
C27_CurrentStreamFromSnapshot ==
    (zg_pc = "idle" /\ zg_last.outcome = "ok") =>
        IF zg._current_source # Absent /\ HasStreamInput(zg._current_source.input)
        THEN LET stream_id == StrToInt(SplitEq1(zg._current_source.input))
                 attached == { i \in DOMAIN zg._streams : zg._streams[i].id = stream_id }
             IN  IF attached = {} THEN zg._current_stream = Absent
                 ELSE \E i \in attached : /\ \A k \in attached : i <= k
                                          /\ zg._current_stream = zg._streams[i]
        ELSE zg._current_stream = Absent

\* C32: after a successful update cycle of a zone or group entity the
\* availability is the one of the status that the playback state comes from,
\* and a group is available exactly when its extra attributes list an enabled
\* member zone, whatever the device answered during the cycle
C32_OneSnapshotPerCycle ==
    (zg_pc = "idle" /\ zg_last.outcome = "ok") =>
        /\ AmpliPiZone_available(zg) = zg_last.expected
        /\ zg._is_group => (AmpliPiZone_available(zg) <=> zg._extra_attributes.amplipi_zones # <<>>)

(***************************************************************************)
(* Optional numbers and flags, device calls                                *)
(***************************************************************************)
\* a number or flag that may be None: <<>> is None, <<v>> is the value v
Nothing == <<>>
Some(v) == <<v>>

\* a zone and a group record with their volume (in hundredths) and mute flag
ZoneV(id, source_id, disabled, vol_f, mute) ==
    [id |-> id, name |-> <<"Z">> \o IntToStr(id), source_id |-> source_id,
     disabled |-> disabled, vol_f |-> vol_f, mute |-> mute]

GroupV(id, source_id, zones, vol_f, mute) ==
    [id |-> id, name |-> <<"G">> \o IntToStr(id), source_id |-> source_id,
     zones |-> zones, vol_f |-> vol_f, mute |-> mute]

\* faulty variant: the test for None never passes
IsNone_never(x) == FALSE

\* `x is None`, the test that opens async_mute_volume and async_set_volume_level
IsNone(x) == x = Nothing

\* [z.id for z in seq]
Ids(seq) == [i \in DOMAIN seq |-> seq[i].id]

\* what an awaited device call did
Call(fn, arg) == [fn |-> fn, arg |-> arg]

(***************************************************************************)
(* AmpliPiStream                                                           *)
(***************************************************************************)
\* the constructor normalizes the stream record in place before reading its name
AmpliPiStream_init(stream, sources) ==
    [ _stream |-> process_stream_names(<<stream>>)[1],
      _current_source |-> Absent,
      _current_zones |-> <<>>,
      _current_groups |-> <<>>,
      _sources |-> sources,
      _id |-> stream.id,
      _name |-> process_stream_names(<<stream>>)[1].name,
      _last_update_successful |-> FALSE,
      _available |-> FALSE,
      _extra_attributes |-> <<>>,
      _attr_media_title |-> NoneStr ]

\* f"stream={id}"
StreamInput(id) == Str_stream_eq \o IntToStr(id)

AmpliPiStream_get_extra_attributes(self) ==
    [self EXCEPT !._extra_attributes =
        [amplipi_source_id |->
            IF self._current_source # Absent THEN Some(self._current_source.id)
            ELSE Nothing]]

AmpliPiStream_update_available(self) ==
    IF self._stream = Absent THEN FALSE ELSE TRUE

\* faulty variant: the current source found in the status is not stored
AmpliPiStream_sync_state_keeps_source(self, stream, sources, current_source, zones, groups) ==
    [ self EXCEPT
        !._stream = process_stream_names(<<stream>>)[1],
        !._sources = sources,
        !._last_update_successful = TRUE,
        !._current_zones = zones,
        !._current_groups = groups ]

\* a faulty variant of sync_state: the zone and group lists of the previous
\* update stay
AmpliPiStream_sync_state_keeps_zones(self, stream, sources, current_source, zones, groups) ==
    [ self EXCEPT
        !._stream = process_stream_names(<<stream>>)[1],
        !._sources = sources,
        !._current_source = current_source,
        !._last_update_successful = TRUE,
        !._attr_media_title = IF current_source # Absent /\ current_source.info # Absent
                              THEN current_source.info.name ELSE NoneStr ]

AmpliPiStream_sync_state(self, stream, sources, current_source, zones, groups) ==
    LET info == IF current_source # Absent THEN current_source.info ELSE Absent
    IN  [ self EXCEPT
            !._stream = process_stream_names(<<stream>>)[1],
            !._sources = sources,
            !._current_source = current_source,
            !._last_update_successful = TRUE,
            !._current_zones = zones,
            !._current_groups = groups,
            !._attr_media_title = IF info # Absent THEN info.name ELSE NoneStr ]

\* async_update whose get_status() gave `fetched`: the entity afterwards and
\* the exception that left the method, if any.  When the status has no stream
\* of the entity's id, the local current_source is never bound and its use in
\* the call of sync_state raises UnboundLocalError, after _get_extra_attributes
\* and _update_available have run.
AmpliPiStream_async_update(self, fetched) ==
    IF fetched = FetchFailed
    THEN [self |-> [self EXCEPT !._last_update_successful = FALSE], raised |-> "no"]
    ELSE LET stream == FirstMatch(fetched.streams, {i \in DOMAIN fetched.streams : fetched.streams[i].id = self._id}, Absent)
             with_extra == AmpliPiStream_get_extra_attributes(self)
             with_available == [with_extra EXCEPT !._available = AmpliPiStream_update_available(with_extra)]
         IN  IF stream = Absent
             THEN [self |-> with_available, raised |-> "UnboundLocalError"]
             ELSE LET current_source == FirstMatch(fetched.sources, {i \in DOMAIN fetched.sources : fetched.sources[i].input = StreamInput(stream.id)}, Absent)
                      groups == IF current_source = Absent THEN <<>>
                                ELSE SelectSeq(fetched.groups, LAMBDA g : g.source_id = current_source.id)
                      zones == IF current_source = Absent THEN <<>>
                               ELSE SelectSeq(fetched.zones, LAMBDA z : z.source_id = current_source.id)
                  IN  [self |-> AmpliPiStream_sync_state(with_available, stream, fetched.sources, current_source, zones, groups),
                       raised |-> "no"]

AmpliPiStream_state(self) ==
    IF self._last_update_successful = FALSE THEN STATE_UNKNOWN
    ELSE IF self._current_source = Absent \/ self._current_source.id = 0 - 1
            \/ self._current_source.info = Absent
            \/ self._current_source.info.state = NoneStr THEN STATE_IDLE
    ELSE IF IsSubstring(self._current_source.info.state, Str_paused) THEN STATE_PAUSED
    ELSE IF IsSubstring(self._current_source.info.state, Str_playing) THEN STATE_PLAYING
    ELSE IF IsSubstring(self._current_source.info.state, Str_stopped) THEN STATE_IDLE
    ELSE STATE_IDLE

\* the source property: f'Source {id + 1}' of the current source, or None
AmpliPiStream_source(self) ==
    IF self._current_source # Absent
    THEN Str_Source \o IntToStr(self._current_source.id + 1)
    ELSE NoneStr

AmpliPiStream_available(self) == self._available

\* faulty variant: every source passes the test
IsFreeInput_any(input) == TRUE

\* the test find_source applies to a source of the device
IsFreeInput(input) == input = <<>> \/ input = Str_None \/ input = NoneStr

\* the loop of find_source over sources[from..]: every passing source is
\* assigned in turn, there is no break
RECURSIVE find_source_loop(_, _, _)
find_source_loop(current, sources, from) ==
    IF from > Len(sources) THEN current
    ELSE find_source_loop(
            IF sources[from] # Absent /\ IsFreeInput(sources[from].input)
            THEN sources[from] ELSE current,
            sources, from + 1)

\* find_source on an entity without current source, get_sources() having
\* returned `sources`
AmpliPiStream_find_source(self, sources) ==
    LET found == find_source_loop(self._current_source, sources, 1)
    IN  [self |-> [self EXCEPT !._current_source = found],
         raised |-> IF found = Absent THEN "Exception" ELSE "no"]

(***************************************************************************)
(* Specification SpecStream: one AmpliPiStream entity, polled and          *)
(* commanded.  Every answer of the device is an input, and so is every     *)
(* failure of a device call.                                               *)
(***************************************************************************)
\* a source of the device; one that plays a stream has an info record
StrmSource(id, input) ==
    Source(id, input, IF HasStreamInput(input) THEN Info(Str_playing, NoneStr) ELSE Absent)

\* inputs of the first and of the second source: '', 'None', None, 'local'
\* and the entity's stream
StrmInputs0 == { <<>>, Str_None, NoneStr, Str_local, StreamInput(1000) }

StrmInputs1 == { <<>>, Str_local, StreamInput(1000) }

StrmSourceLists ==
    { <<StrmSource(0, in0), StrmSource(1, in1)>> : in0 \in StrmInputs0, in1 \in StrmInputs1 }
      \cup { <<>> }

\* the source lists of the status snapshots: the stream on no source, on the
\* first, on the second, and a device without sources
StrmStatusSourceLists ==
    { <<StrmSource(0, Str_local), StrmSource(1, <<>>)>>,
      <<StrmSource(0, StreamInput(1000)), StrmSource(1, Str_local)>>,
      <<StrmSource(0, Str_None), StrmSource(1, StreamInput(1000))>>,
      <<StrmSource(1, StreamInput(1000)), StrmSource(0, StreamInput(1000))>>,
      <<>> }

StrmZoneLists ==
    { <<>>,
      <<ZoneV(0, 0, FALSE, Some(50), Some(FALSE)), ZoneV(1, 1, FALSE, Some(20), Some(TRUE))>> }

\* the status snapshots: one dimension varies at a time around a status with
\* the stream, zones on both sources and a group on the first source
StrmSnapshots ==
    LET sources0 == <<StrmSource(0, StreamInput(1000)), StrmSource(1, Str_local)>>
        streams0 == <<Stream(1000, Str_Radio)>>
        zones0 == <<ZoneV(0, 0, FALSE, Some(50), Some(FALSE)), ZoneV(1, 1, FALSE, Some(20), Some(TRUE))>>
        groups0 == <<GroupV(0, 0, <<0>>, Some(40), Some(FALSE))>>
    IN  { Status(sources, zones0, groups0, streams0) : sources \in StrmStatusSourceLists }
          \cup { Status(sources0, <<>>, <<>>, streams0),
                 Status(sources0, zones0, groups0, <<>>) }

\* the arguments of set_volume (hundredths) and of set_mute; Nothing is None
Volumes == { Nothing, Some(30) }

Mutes == { Nothing, Some(TRUE), Some(FALSE) }

\* async_setup_entry: one AmpliPiStream per stream of the first status
InitStream ==
    /\ \E first \in StrmSnapshots : \E i \in DOMAIN first.streams :
          strm = AmpliPiStream_init(first.streams[i], first.sources)
    /\ calls = <<>>
    /\ cmd = [op |-> "none"]
    /\ NamesIdle /\ CodecIdle /\ UrlIdle /\ SrcIdle /\ ZgIdle /\ AnnIdle /\ InstallIdle

\* a poll whose get_status() raises
StrmPollFails ==
    /\ strm # Absent
    /\ strm' = AmpliPiStream_async_update(strm, FetchFailed).self
    /\ calls' = <<Call("get_status", Nothing)>>
    /\ cmd' = [op |-> "update", fetched |-> FetchFailed, raised |-> "no"]
    /\ UNCHANGED <<namesVars, codecVars, urlVars, srcVars, zgVars, annVars, installVars>>

\* a poll whose get_status() returns a status
StrmPoll ==
    /\ strm # Absent
    /\ \E fetched \in StrmSnapshots :
          LET r == AmpliPiStream_async_update(strm, fetched)
          IN  /\ strm' = r.self
              /\ cmd' = [op |-> "update", fetched |-> fetched, raised |-> r.raised]
    /\ calls' = <<Call("get_status", Nothing)>>
    /\ UNCHANGED <<namesVars, codecVars, urlVars, srcVars, zgVars, annVars, installVars>>

\* turn_on, i.e. find_source, while the device has the sources `sources`;
\* get_sources() is called only by an entity without current source.
\* cmd.answered tells whether the device could give its sources.
StrmTurnOn ==
    /\ strm # Absent
    /\ \E sources \in StrmSourceLists :
          /\ cmd' = [op |-> "find_source", answered |-> TRUE, sources |-> sources,
                     before_source |-> strm._current_source,
                     raised |-> IF strm._current_source = Absent
                                THEN AmpliPiStream_find_source(strm, sources).raised
                                ELSE "no"]
          /\ IF strm._current_source = Absent
             THEN /\ strm' = AmpliPiStream_find_source(strm, sources).self
                  /\ calls' = <<Call("get_sources", Nothing)>>
             ELSE /\ strm' = strm
                  /\ calls' = <<>>
    /\ UNCHANGED <<namesVars, codecVars, urlVars, srcVars, zgVars, annVars, installVars>>

\* turn_on whose get_sources() raises
StrmTurnOnFails ==
    /\ strm # Absent
    /\ strm._current_source = Absent
    /\ calls' = <<Call("get_sources", Nothing)>>
    /\ cmd' = [op |-> "find_source", answered |-> FALSE, sources |-> <<>>,
               before_source |-> strm._current_source, raised |-> "DeviceError"]
    /\ UNCHANGED <<strm, namesVars, codecVars, urlVars, srcVars, zgVars, annVars, installVars>>

\* AmpliPiStream._update_zones(update) as the body of command `op`
StrmUpdateZones(op, arg, update) ==
    IF strm._current_source = Absent
    THEN /\ strm' = strm
         /\ calls' = <<>>
         /\ cmd' = [op |-> op, arg |-> arg, raised |-> "no"]
    ELSE \/ /\ strm' = strm
            /\ calls' = <<Call("get_zones", Nothing)>>
            /\ cmd' = [op |-> op, arg |-> arg, raised |-> "DeviceError"]
         \/ \E zones \in StrmZoneLists :
              LET mine == SelectSeq(zones, LAMBDA z : z.source_id = strm._current_source.id)
                  sent == [f \in (DOMAIN update) \cup {"zones"} |->
                              IF f = "zones" THEN mine ELSE update[f]]
              IN  \/ /\ strm' = strm
                     /\ calls' = <<Call("get_zones", Nothing), Call("set_zones", sent)>>
                     /\ cmd' = [op |-> op, arg |-> arg, raised |-> "DeviceError"]
                  \/ \E fetched \in StrmSnapshots \cup {FetchFailed} :
                        LET r == AmpliPiStream_async_update(strm, fetched)
                        IN  /\ strm' = r.self
                            /\ calls' = <<Call("get_zones", Nothing), Call("set_zones", sent),
                                          Call("get_status", Nothing)>>
                            /\ cmd' = [op |-> op, arg |-> arg, raised |-> r.raised]

StrmMuteVolume ==
    /\ strm # Absent
    /\ \E mute \in Mutes :
          IF IsNone(mute)
          THEN /\ strm' = strm
               /\ calls' = <<>>
               /\ cmd' = [op |-> "mute_volume", arg |-> mute, raised |-> "no"]
          ELSE IF strm._current_source # Absent
          THEN StrmUpdateZones("mute_volume", mute, [update |-> [mute |-> mute]])
          ELSE /\ strm' = strm
               /\ calls' = <<>>
               /\ cmd' = [op |-> "mute_volume", arg |-> mute, raised |-> "no"]
    /\ UNCHANGED <<namesVars, codecVars, urlVars, srcVars, zgVars, annVars, installVars>>

StrmSetVolumeLevel ==
    /\ strm # Absent
    /\ \E volume \in Volumes :
          IF IsNone(volume)
          THEN /\ strm' = strm
               /\ calls' = <<>>
               /\ cmd' = [op |-> "set_volume_level", arg |-> volume, raised |-> "no"]
          ELSE StrmUpdateZones("set_volume_level", volume,
                   [groups |-> strm._current_groups, zones |-> strm._current_zones,
                    update |-> [vol_f |-> volume]])
    /\ UNCHANGED <<namesVars, codecVars, urlVars, srcVars, zgVars, annVars, installVars>>

NextStream ==
    \/ StrmPollFails
    \/ StrmPoll
    \/ StrmTurnOn
    \/ StrmTurnOnFails
    \/ StrmMuteVolume
    \/ StrmSetVolumeLevel

SpecStream == InitStream /\ [][NextStream]_vars

\* C35: after every successful update of a stream entity the extra state
\* attribute amplipi_source_id is the id of the current source that this
\* update set, and None when the current source is absent
C35_SourceIdAttributeIsCurrent ==
    (cmd.op = "update" /\ cmd.fetched # FetchFailed /\ cmd.raised = "no") =>
        strm._extra_attributes.amplipi_source_id =
            (IF strm._current_source = Absent THEN Nothing
             ELSE Some(strm._current_source.id))

\* C12: after an update of a stream entity from a status that holds the
\* stream's record but no source with input 'stream={id}', the state is idle,
\* the source property is None and available is TRUE
C12_IdleWithoutSource ==
    (/\ cmd.op = "update"
     /\ cmd.fetched # FetchFailed
     /\ \E i \in DOMAIN cmd.fetched.streams : cmd.fetched.streams[i].id = strm._id
     /\ \A i \in DOMAIN cmd.fetched.sources :
            cmd.fetched.sources[i].input # StreamInput(strm._id))
        => /\ AmpliPiStream_state(strm) = STATE_IDLE
           /\ AmpliPiStream_source(strm) = NoneStr
           /\ AmpliPiStream_available(strm)

\* C12 witness: the entity had source 0 as current source when the update
\* began (the extra attributes still show it), and the status has the stream
\* but no source that plays it
C12_Witness ==
    /\ cmd.op = "update"
    /\ cmd.fetched # FetchFailed
    /\ \E i \in DOMAIN cmd.fetched.streams : cmd.fetched.streams[i].id = strm._id
    /\ cmd.fetched.sources # <<>>
    /\ \A i \in DOMAIN cmd.fetched.sources :
           cmd.fetched.sources[i].input # StreamInput(strm._id)
    /\ strm._extra_attributes = [amplipi_source_id |-> Some(0)]
    /\ AmpliPiStream_state(strm) = STATE_IDLE
    /\ AmpliPiStream_source(strm) = NoneStr
    /\ AmpliPiStream_available(strm)

\* C13 as claimed: find_source, when every source of the device has a
\* non-empty input, raises and leaves the current source as it was, whatever
\* the entity's state and also for the input 'None'
C13_RaisesWhenAllBusy ==
    (/\ cmd.op = "find_source"
     /\ cmd.answered
     /\ \A i \in DOMAIN cmd.sources : cmd.sources[i].input \notin {<<>>, NoneStr})
        => /\ cmd.raised = "Exception"
           /\ strm._current_source = cmd.before_source

\* C13 as amended: find_source on an entity WITHOUT current source, when every
\* source of the device has an input other than '', 'None' and None, raises
\* and adopts no source
C13_RaisesWhenDetachedAndAllBusy ==
    (/\ cmd.op = "find_source"
     /\ cmd.answered
     /\ cmd.before_source = Absent
     /\ \A i \in DOMAIN cmd.sources : cmd.sources[i].input \notin {<<>>, Str_None, NoneStr})
        => /\ cmd.raised = "Exception"
           /\ strm._current_source = Absent

\* C13 witness: the device has sources, all of them in use, and find_source
\* on an entity without current source raised
C13_Witness ==
    /\ cmd.op = "find_source"
    /\ cmd.answered
    /\ cmd.before_source = Absent
    /\ cmd.sources # <<>>
    /\ \A i \in DOMAIN cmd.sources : cmd.sources[i].input \notin {<<>>, Str_None, NoneStr}
    /\ cmd.raised = "Exception"
    /\ strm._current_source = Absent
    /\ calls = <<Call("get_sources", Nothing)>>

\* C14: find_source on an entity without current source, when several sources
\* of the device have an empty or absent input, adopts the first of them
C14_AdoptsFirstFree ==
    (/\ cmd.op = "find_source"
     /\ cmd.answered
     /\ cmd.before_source = Absent
     /\ Cardinality({i \in DOMAIN cmd.sources : cmd.sources[i].input \in {<<>>, NoneStr}}) >= 2)
        => strm._current_source =
              FirstMatch(cmd.sources,
                  {i \in DOMAIN cmd.sources : cmd.sources[i].input \in {<<>>, NoneStr}}, Absent)

\* the status fetched by the last poll has a stream of the entity's id
StrmRecordIn(fetched) ==
    \E i \in DOMAIN fetched.streams : fetched.streams[i].id = strm._id

\* C24: an update of a stream entity from a status without the stream's
\* record does not raise and leaves the cached stream, current source, zones
\* and groups as they were
C24_MissingRecordIsNoOp ==
    [][ (cmd'.op = "update" /\ cmd'.fetched # FetchFailed /\ ~StrmRecordIn(cmd'.fetched)) =>
            /\ cmd'.raised = "no"
            /\ strm'._stream = strm._stream
            /\ strm'._current_source = strm._current_source
            /\ strm'._current_zones = strm._current_zones
            /\ strm'._current_groups = strm._current_groups ]_vars

\* C29: after a successful update from status S the current source is the
\* first source of S whose input is 'stream={id}', or absent without one, and
\* the zone and group lists are the zones and groups of S on that source
C29_SourceZonesGroupsFromSnapshot ==
    (cmd.op = "update" /\ cmd.fetched # FetchFailed /\ cmd.raised = "no") =>
        LET S == cmd.fetched
            mine == { i \in DOMAIN S.sources : S.sources[i].input = StreamInput(strm._id) }
        IN  IF mine = {}
            THEN /\ strm._current_source = Absent
                 /\ strm._current_zones = <<>>
                 /\ strm._current_groups = <<>>
            ELSE \E i \in mine :
                    /\ \A k \in mine : i <= k
                    /\ strm._current_source = S.sources[i]
                    /\ strm._current_zones =
                           SelectSeq(S.zones, LAMBDA z : z.source_id = S.sources[i].id)
                    /\ strm._current_groups =
                           SelectSeq(S.groups, LAMBDA g : g.source_id = S.sources[i].id)

\* updated from a status with two sources that play the stream, the first of
\* them with a zone on it
C29_Witness ==
    /\ cmd.op = "update" /\ cmd.fetched # FetchFailed /\ cmd.raised = "no"
    /\ strm._current_source # Absent
    /\ strm._current_source.id = 1
    /\ strm._current_zones # <<>>
    /\ Len(cmd.fetched.sources) = 2
    /\ cmd.fetched.sources[2].input = cmd.fetched.sources[1].input

(***************************************************************************)
(* AmpliPiSource: service calls                                            *)
(***************************************************************************)
\* values a volume_level property returns: a number, or a string
Num(v) == [number |-> v]
Text(t) == [text |-> t]

\* next(filter(lambda z: z.vol_f is not None, seq), None) as an index, 0 for None
FirstWithVolume(seq) ==
    LET hits == {i \in DOMAIN seq : seq[i].vol_f # Nothing}
    IN  IF hits = {} THEN 0 ELSE CHOOSE i \in hits : \A j \in hits : i <= j

\* a faulty variant of volume_level: the zones are asked before the groups
AmpliPiSource_volume_level_zones_first(self) ==
    IF FirstWithVolume(self._zones) # 0
    THEN Num(self._zones[FirstWithVolume(self._zones)].vol_f[1])
    ELSE IF FirstWithVolume(self._groups) # 0
    THEN Num(self._groups[FirstWithVolume(self._groups)].vol_f[1])
    ELSE Text(STATE_UNKNOWN)

AmpliPiSource_volume_level(self) ==
    IF FirstWithVolume(self._groups) # 0
    THEN Num(self._groups[FirstWithVolume(self._groups)].vol_f[1])
    ELSE IF FirstWithVolume(self._zones) # 0
    THEN Num(self._zones[FirstWithVolume(self._zones)].vol_f[1])
    ELSE Text(STATE_UNKNOWN)

\* next(filter(lambda z: z.mute is not None, seq), None) as an index, 0 for None
FirstWithMute(seq) ==
    LET hits == {i \in DOMAIN seq : seq[i].mute # Nothing}
    IN  IF hits = {} THEN 0 ELSE CHOOSE i \in hits : \A j \in hits : i <= j

\* a flag as the value of a property
Flag(b) == [flag |-> b]

AmpliPiSource_is_volume_muted(self) ==
    IF FirstWithMute(self._groups) # 0
    THEN Flag(self._groups[FirstWithMute(self._groups)].mute[1])
    ELSE IF FirstWithMute(self._zones) # 0
    THEN Flag(self._zones[FirstWithMute(self._zones)].mute[1])
    ELSE Text(STATE_UNKNOWN)

\* the scan of async_select_source over self._streams[from..]: the lambda
\* evaluates process_stream_id(z.name), then process_stream_id(source), and
\* compares; an exception of either leaves the scan.  The result is the input
\* to send, or None when no stream passes.
RECURSIVE select_source_scan(_, _, _)
select_source_scan(streams, source, from) ==
    IF from > Len(streams) THEN Returned(NoneStr)
    ELSE LET of_stream == process_stream_id(streams[from].name)
             of_source == process_stream_id(source)
         IN  IF of_stream.raised # "no" THEN of_stream
             ELSE IF of_source.raised # "no" THEN of_source
             ELSE IF of_stream.value = of_source.value
             THEN Returned(StreamInput(streams[from].id))
             ELSE select_source_scan(streams, source, from + 1)

\* the input async_select_source(source) sends with _update_source (None:
\* nothing is sent), or the exception it raises before any device call
AmpliPiSource_select_source_input(self, source) ==
    IF self._source # Absent /\ self._source.name = source THEN Returned(Str_local)
    ELSE IF source = Str_None THEN Returned(Str_None)
    ELSE select_source_scan(self._streams, source, 1)

\* faulty variant: only the first group with a volume, or else the first zone
\* with a volume, is addressed
AmpliPiSource_multi_zone_update_target(self, update) ==
    IF FirstWithVolume(self._groups) # 0
    THEN [zones |-> <<>>, groups |-> <<self._groups[FirstWithVolume(self._groups)].id>>,
          update |-> update]
    ELSE IF FirstWithVolume(self._zones) # 0
    THEN [zones |-> <<self._zones[FirstWithVolume(self._zones)].id>>, groups |-> <<>>,
          update |-> update]
    ELSE [zones |-> <<>>, groups |-> <<>>, update |-> update]

\* the MultiZoneUpdate of async_mute_volume and async_set_volume_level: the
\* ids of all cached zones and of all cached groups of the source
AmpliPiSource_multi_zone_update(self, update) ==
    [zones |-> Ids(self._zones), groups |-> Ids(self._groups), update |-> update]

\* faulty variant: async_set_volume_level without the write into the cache
AmpliPiSource_write_volume_skipped(self, volume) == self

\* the first statements of async_set_volume_level: the requested volume is
\* written into the cached record of the first group that has a volume, or
\* else of the first zone that has one, before any device call
AmpliPiSource_write_volume(self, volume) ==
    IF FirstWithVolume(self._groups) # 0
    THEN [self EXCEPT !._groups[FirstWithVolume(self._groups)].vol_f = volume]
    ELSE IF FirstWithVolume(self._zones) # 0
    THEN [self EXCEPT !._zones[FirstWithVolume(self._zones)].vol_f = volume]
    ELSE self

(***************************************************************************)
(* Specification SpecSourceCmd: one AmpliPiSource entity, polled and       *)
(* commanded.  cmd records the last operation: sent tells whether its      *)
(* changing device call returned, refetched whether get_status() was       *)
(* called afterwards, fetched what that call gave.                         *)
(***************************************************************************)
ScSourceLists ==
    { <<Source(0, Str_local, Absent)>>,
      <<Source(0, StreamInput(1000), Info(Str_playing, NoneStr))>>,
      <<>> }

\* stream lists: the usual one, ids with the same first four digits, ids
\* that start with 2, and a display name that holds the marker already
ScStreamLists ==
    { <<>>,
      <<Stream(996, <<"I", "n">>), Stream(1000, Str_Radio)>>,
      <<Stream(1000, Str_Radio), Stream(10000, Str_Radio)>>,
      <<Stream(2000, Str_Radio), Stream(2001, Str_Radio)>>,
      <<Stream(1001, MARKER)>> }

\* the zones and groups of the device: none, two zones on the source (one
\* without volume), with them a group that has a volume or has none, two
\* groups of which the second has the volume and the first the mute flag,
\* and two zones of which the second has the volume
ScZonesAndGroups ==
    LET zones == <<ZoneV(0, 0, FALSE, Some(50), Some(FALSE)), ZoneV(1, 0, FALSE, Nothing, Nothing)>>
    IN  { [zones |-> <<>>, groups |-> <<>>],
          [zones |-> zones, groups |-> <<>>],
          [zones |-> zones, groups |-> <<GroupV(0, 0, <<0>>, Some(40), Some(FALSE))>>],
          [zones |-> zones, groups |-> <<GroupV(0, 0, <<0>>, Nothing, Nothing)>>],
          [zones |-> zones, groups |-> <<GroupV(0, 0, <<0>>, Nothing, Some(TRUE)),
                                         GroupV(1, 0, <<1>>, Some(60), Nothing)>>],
          [zones |-> <<ZoneV(1, 0, FALSE, Nothing, Some(TRUE)), ZoneV(0, 0, FALSE, Some(50), Some(FALSE))>>,
           groups |-> <<>>] }

\* the status snapshots: one dimension varies at a time around a status with
\* the source playing stream 1000, the usual streams, and zones with a group
ScSnapshots ==
    LET sources0 == <<Source(0, StreamInput(1000), Info(Str_playing, NoneStr))>>
        streams0 == <<Stream(996, <<"I", "n">>), Stream(1000, Str_Radio)>>
        both0 == [zones |-> <<ZoneV(0, 0, FALSE, Some(50), Some(FALSE)), ZoneV(1, 0, FALSE, Nothing, Nothing)>>,
                  groups |-> <<GroupV(0, 0, <<0>>, Some(40), Some(FALSE))>>]
    IN  { Status(sources, both0.zones, both0.groups, streams0) : sources \in ScSourceLists }
          \cup { Status(sources0, both.zones, both.groups, streams0) : both \in ScZonesAndGroups }
          \cup { Status(sources0, both0.zones, both0.groups, streams) : streams \in ScStreamLists }

\* labels handed to select_source: the source's own name, 'None', the names
\* of the cached streams, the name of a stream that is not cached, a label
\* without digits and one whose first digit is 5
ScLabels(self) ==
    { SourceName(self._id), Str_None, PrefixedName(Stream(1002, Str_Radio)),
      Str_Radio, <<"T", "V", " ", "5">> }
      \cup { self._streams[i].name : i \in DOMAIN self._streams }

MediaOps == { "play_stream", "stop_stream", "pause_stream", "previous_stream", "next_stream" }

\* async_setup_entry: one AmpliPiSource per source of the first status
InitSourceCmd ==
    /\ \E first \in ScSnapshots : \E i \in DOMAIN first.sources :
          src = AmpliPiSource_init(first.sources[i], first.streams)
    /\ src_last = Absent
    /\ calls = <<>>
    /\ cmd = [op |-> "none"]
    /\ NamesIdle /\ CodecIdle /\ UrlIdle /\ ZgIdle /\ StrmIdle /\ AnnIdle /\ InstallIdle

\* an operation that ends before any device call
SrcNoCall(op, arg, raised) ==
    /\ src' = src
    /\ calls' = <<>>
    /\ cmd' = [op |-> op, arg |-> arg, raised |-> raised, sent |-> FALSE,
               refetched |-> FALSE, fetched |-> FetchFailed]

\* `await self._client.<call>` followed by `await self.async_update()`, on the
\* entity `self`: the device call raises, or it returns and the status is
\* fetched again
SrcCallThenUpdate(op, arg, self, call) ==
    \/ /\ src' = self
       /\ calls' = <<call>>
       /\ cmd' = [op |-> op, arg |-> arg, raised |-> "DeviceError", sent |-> FALSE,
                  refetched |-> FALSE, fetched |-> FetchFailed]
    \/ \E fetched \in ScSnapshots \cup {FetchFailed} :
          /\ src' = AmpliPiSource_async_update(self, fetched)
          /\ calls' = <<call, Call("get_status", Nothing)>>
          /\ cmd' = [op |-> op, arg |-> arg, raised |-> "no", sent |-> TRUE,
                     refetched |-> TRUE, fetched |-> fetched]

\* the poll of the entity
SrcCmdPoll ==
    /\ src # Absent
    /\ \E fetched \in ScSnapshots \cup {FetchFailed} :
          /\ src' = AmpliPiSource_async_update(src, fetched)
          /\ cmd' = [op |-> "update", arg |-> Nothing, raised |-> "no", sent |-> FALSE,
                     refetched |-> TRUE, fetched |-> fetched]
    /\ calls' = <<Call("get_status", Nothing)>>
    /\ UNCHANGED <<src_last, namesVars, codecVars, urlVars, zgVars, strmVars, annVars, installVars>>

SrcSelectSource ==
    /\ src # Absent
    /\ \E source \in ScLabels(src) :
          LET input == AmpliPiSource_select_source_input(src, source)
          IN  IF input.raised # "no" THEN SrcNoCall("select_source", source, input.raised)
              ELSE IF input.value = NoneStr THEN SrcNoCall("select_source", source, "no")
              ELSE SrcCallThenUpdate("select_source", source, src,
                       Call("set_source", [id |-> src._source.id, input |-> input.value]))
    /\ UNCHANGED <<src_last, namesVars, codecVars, urlVars, zgVars, strmVars, annVars, installVars>>

SrcTurnOff ==
    /\ src # Absent
    /\ IF src._source # Absent
       THEN SrcCallThenUpdate("turn_off", Nothing, src,
                Call("set_source", [id |-> src._source.id, input |-> Str_None]))
       ELSE SrcNoCall("turn_off", Nothing, "no")
    /\ UNCHANGED <<src_last, namesVars, codecVars, urlVars, zgVars, strmVars, annVars, installVars>>

SrcMuteVolume ==
    /\ src # Absent
    /\ \E mute \in Mutes :
          IF IsNone(mute) \/ src._source = Absent
          THEN SrcNoCall("mute_volume", mute, "no")
          ELSE SrcCallThenUpdate("mute_volume", mute, src,
                   Call("set_zones", AmpliPiSource_multi_zone_update(src, [mute |-> mute])))
    /\ UNCHANGED <<src_last, namesVars, codecVars, urlVars, zgVars, strmVars, annVars, installVars>>

SrcSetVolumeLevel ==
    /\ src # Absent
    /\ \E volume \in Volumes :
          IF IsNone(volume)
          THEN SrcNoCall("set_volume_level", volume, "no")
          ELSE SrcCallThenUpdate("set_volume_level", volume,
                   AmpliPiSource_write_volume(src, volume),
                   Call("set_zones", AmpliPiSource_multi_zone_update(src, [vol_f |-> volume])))
    /\ UNCHANGED <<src_last, namesVars, codecVars, urlVars, zgVars, strmVars, annVars, installVars>>

\* async_media_play, _stop, _pause, _previous_track, _next_track: reading
\* self._current_stream.id of a source without current stream raises
SrcMedia ==
    /\ src # Absent
    /\ \E op \in MediaOps :
          IF src._current_stream = Absent
          THEN SrcNoCall(op, Nothing, "AttributeError")
          ELSE SrcCallThenUpdate(op, Nothing, src, Call(op, src._current_stream.id))
    /\ UNCHANGED <<src_last, namesVars, codecVars, urlVars, zgVars, strmVars, annVars, installVars>>

\* async_play_media: the device call is the last statement
SrcPlayMedia ==
    /\ src # Absent
    /\ src' = src
    /\ calls' = <<Call("play_media", [source_id |-> src._source.id])>>
    /\ \E returned \in BOOLEAN :
          cmd' = [op |-> "play_media", arg |-> Nothing,
                  raised |-> IF returned THEN "no" ELSE "DeviceError",
                  sent |-> returned, refetched |-> FALSE, fetched |-> FetchFailed]
    /\ UNCHANGED <<src_last, namesVars, codecVars, urlVars, zgVars, strmVars, annVars, installVars>>

NextSourceCmd ==
    \/ SrcCmdPoll
    \/ SrcSelectSource
    \/ SrcTurnOff
    \/ SrcMuteVolume
    \/ SrcSetVolumeLevel
    \/ SrcMedia
    \/ SrcPlayMedia

SpecSourceCmd == InitSourceCmd /\ [][NextSourceCmd]_vars

\* the zones, or the groups, of a status that are on the source with this id
ScOnSource(seq, id) == SelectSeq(seq, LAMBDA z : z.source_id = id)

\* the operation fetched a status that holds the entity's source
ScSynced ==
    /\ cmd.op # "none"
    /\ cmd.fetched # FetchFailed
    /\ \E i \in DOMAIN cmd.fetched.sources : cmd.fetched.sources[i].id = src._id

\* C37: after a status was synced, volume_level and is_volume_muted of a
\* source entity are the value of the first group on the source that has one
\* whenever a group has one, and else the value of the first zone on the
\* source that has one; a zone's value is reported only if no group has one
C37_GroupsBeforeZones ==
    ScSynced =>
        LET groups == ScOnSource(cmd.fetched.groups, src._id)
            zones == ScOnSource(cmd.fetched.zones, src._id)
        IN  /\ \A i \in DOMAIN groups :
                  (groups[i].vol_f # Nothing /\ \A j \in 1..(i - 1) : groups[j].vol_f = Nothing)
                      => AmpliPiSource_volume_level(src) = Num(groups[i].vol_f[1])
            /\ \A i \in DOMAIN groups :
                  (groups[i].mute # Nothing /\ \A j \in 1..(i - 1) : groups[j].mute = Nothing)
                      => AmpliPiSource_is_volume_muted(src) = Flag(groups[i].mute[1])
            /\ \A i \in DOMAIN zones :
                  (/\ \A j \in DOMAIN groups : groups[j].vol_f = Nothing
                   /\ zones[i].vol_f # Nothing /\ \A j \in 1..(i - 1) : zones[j].vol_f = Nothing)
                      => AmpliPiSource_volume_level(src) = Num(zones[i].vol_f[1])
            /\ \A i \in DOMAIN zones :
                  (/\ \A j \in DOMAIN groups : groups[j].mute = Nothing
                   /\ zones[i].mute # Nothing /\ \A j \in 1..(i - 1) : zones[j].mute = Nothing)
                      => AmpliPiSource_is_volume_muted(src) = Flag(zones[i].mute[1])

\* a fetched status with two groups on the source: the volume is the second
\* group's, the mute flag the first group's, though a zone has both
C37_Witness ==
    /\ ScSynced
    /\ Len(cmd.fetched.groups) = 2
    /\ cmd.fetched.zones[1].vol_f = Some(50)
    /\ AmpliPiSource_volume_level(src) = Num(60)
    /\ AmpliPiSource_is_volume_muted(src) = Flag(TRUE)

\* a label that is the source's own name, 'None', the name of a cached stream
\* or a label that holds the id of a cached stream
ScDenotes(self, source) ==
    \/ source = SourceName(self._id)
    \/ source = Str_None
    \/ \E i \in DOMAIN self._streams :
          \/ self._streams[i].name = source
          \/ IsSubstring(IntToStr(self._streams[i].id), source)

\* C15: select_source with a label that is not the source's own name, not
\* 'None' and denotes no cached stream raises nothing, makes no device call
\* and leaves the entity as it was
C15_UnmatchedIsNoOp ==
    [][(cmd'.op = "select_source" /\ ~ScDenotes(src, cmd'.arg))
          => (cmd'.raised = "no" /\ calls' = <<>> /\ src' = src)]_vars

\* C16: select_source sends input 'local' for the source's own name, 'None'
\* for the label 'None', and for the name of a cached stream s the input
\* 'stream={s.id}' of that stream
C16_SelectSendsDenoted ==
    [][cmd'.op = "select_source" =>
          /\ cmd'.arg = SourceName(src._id) =>
                (calls' # <<>> /\ calls'[1] = Call("set_source", [id |-> src._id, input |-> Str_local]))
          /\ cmd'.arg = Str_None =>
                (calls' # <<>> /\ calls'[1] = Call("set_source", [id |-> src._id, input |-> Str_None]))
          /\ \A i \in DOMAIN src._streams :
                cmd'.arg = src._streams[i].name =>
                    (calls' # <<>> /\ calls'[1] = Call("set_source",
                        [id |-> src._id, input |-> StreamInput(src._streams[i].id)]))]_vars

\* C17 as claimed: the update of set_volume and set_mute addresses only the
\* first group of the source that has a volume, or, without such a group,
\* only the first zone that has one
C17_SendsToPriorityTarget ==
    [][(cmd'.op \in {"set_volume_level", "mute_volume"} /\ calls' # <<>>) =>
          IF FirstWithVolume(src._groups) # 0
          THEN /\ calls'[1].arg.groups = <<src._groups[FirstWithVolume(src._groups)].id>>
               /\ calls'[1].arg.zones = <<>>
          ELSE IF FirstWithVolume(src._zones) # 0
          THEN /\ calls'[1].arg.zones = <<src._zones[FirstWithVolume(src._zones)].id>>
               /\ calls'[1].arg.groups = <<>>
          ELSE TRUE]_vars

\* C17 as amended: the update of set_volume and set_mute is one set_zones call
\* that addresses every cached zone and every cached group of the source
C17_SendsToAllZonesAndGroups ==
    [][(cmd'.op \in {"set_volume_level", "mute_volume"} /\ cmd'.arg # Nothing) =>
          /\ calls' # <<>>
          /\ calls'[1].fn = "set_zones"
          /\ calls'[1].arg.zones = Ids(src._zones)
          /\ calls'[1].arg.groups = Ids(src._groups)
          /\ \A i \in 2..Len(calls') : calls'[i].fn = "get_status"]_vars

\* C17 witness: set_volume on a source with a group that has a volume and
\* with zones: the update that was sent names the group and the zones
C17_Witness ==
    /\ cmd.op = "set_volume_level"
    /\ cmd.arg # Nothing
    /\ cmd.sent
    /\ calls[1].fn = "set_zones"
    /\ calls[1].arg.groups = <<0>>
    /\ calls[1].arg.zones = <<0, 1>>
    /\ calls[1].arg.update = [vol_f |-> cmd.arg]

\* the operations of the source entity that change the device
SrcMutatingOps ==
    {"select_source", "turn_off", "set_volume_level", "mute_volume", "play_media"} \cup MediaOps

\* C19: when an operation of the source entity has changed the device, it has
\* fetched the status again as its last device call, and, the fetch giving a
\* status with the source, the cache is the one synced from that status
C19_MutationThenRefetch ==
    (cmd.op \in SrcMutatingOps /\ cmd.sent) =>
        /\ cmd.refetched
        /\ calls[Len(calls)].fn = "get_status"
        /\ (cmd.fetched # FetchFailed /\ OwnSource(cmd.fetched) # Absent)
              => src = AmpliPiSource_async_update(src, cmd.fetched)

(***************************************************************************)
(* AmpliPiZone: service calls                                              *)
(***************************************************************************)
\* async_update run to its end; fetched1, fetched2 and fetched3 are the
\* answers of the get_status() calls of async_update, of _get_extra_attributes
\* (a group only) and of _update_available.  Only the first call is inside the
\* try: a failure of the second or third leaves async_update as an exception.
AmpliPiZone_async_update(self, fetched1, fetched2, fetched3) ==
    IF fetched1 = FetchFailed \/ AmpliPiZone_update_locals(self, fetched1) = Absent
    THEN [self |-> [self EXCEPT !._last_update_successful = FALSE], raised |-> "no", synced |-> FALSE]
    ELSE IF self._is_group /\ fetched2 = FetchFailed
    THEN [self |-> self, raised |-> "DeviceError", synced |-> FALSE]
    ELSE LET locals == AmpliPiZone_update_locals(self, fetched1)
             with_extra ==
                 IF self._is_group THEN AmpliPiZone_get_extra_attributes_group(self, fetched2)
                 ELSE AmpliPiZone_get_extra_attributes_zone(self)
         IN  IF fetched3 = FetchFailed
             THEN [self |-> with_extra, raised |-> "DeviceError", synced |-> FALSE]
             ELSE [self |-> AmpliPiZone_sync_state(
                                [with_extra EXCEPT !._available = AmpliPiZone_update_available(with_extra, fetched3)],
                                locals.zone, locals.group, fetched1.streams, fetched1.sources, locals.enabled),
                   raised |-> "no", synced |-> TRUE]

AmpliPiZone_volume_level(self) ==
    IF self._is_group /\ self._group # Absent
    THEN (IF self._group.vol_f = Nothing THEN Absent ELSE Num(self._group.vol_f[1]))
    ELSE IF self._zone # Absent
    THEN (IF self._zone.vol_f = Nothing THEN Absent ELSE Num(self._zone.vol_f[1]))
    ELSE Absent

\* the first statements of async_set_volume_level: the requested volume is
\* written into the cached group or zone record before any device call
AmpliPiZone_write_volume(self, volume) ==
    IF self._is_group /\ self._group # Absent
    THEN [self EXCEPT !._group.vol_f = volume]
    ELSE IF self._zone # Absent
    THEN [self EXCEPT !._zone.vol_f = volume]
    ELSE self

\* the device call of _update_group or _update_zone for a ZoneUpdate
AmpliPiZone_update_call(self, update) ==
    IF self._is_group
    THEN Call("set_zones", [groups |-> <<self._group.id>>, update |-> update])
    ELSE Call("set_zone", [id |-> self._id, update |-> update])

(***************************************************************************)
(* AmpliPiAnnouncer                                                        *)
(***************************************************************************)
\* the announcer's volume is kept in hundredths
AmpliPiAnnouncer_init ==
    [ _current_source |-> Absent,
      _enabled |-> TRUE,
      _last_update_successful |-> TRUE,
      _available |-> TRUE,
      _extra_attributes |-> <<>>,
      _volume |-> 50 ]

AmpliPiAnnouncer_state(self) == STATE_IDLE

\* async_set_volume_level: None is ignored, anything else is stored, and the
\* device is not told
AmpliPiAnnouncer_set_volume_level(self, volume) ==
    IF IsNone(volume) THEN self ELSE [self EXCEPT !._volume = volume[1]]

\* media_source.is_media_source_id: the id has the media-source scheme
MEDIA_SOURCE == <<"m", "e", "d", "i", "a", "-", "s", "o", "u", "r", "c", "e", ":", "/", "/">>

is_media_source_id(media_id) ==
    Len(media_id) >= Len(MEDIA_SOURCE) /\ SubSeq(media_id, 1, Len(MEDIA_SOURCE)) = MEDIA_SOURCE

\* the host's own address, which async_process_play_media_url puts before a
\* path; an absolute URL passes unchanged
HassUrl == SCHEME \o <<"h", "a">>

async_process_play_media_url(media_id) ==
    IF media_id # <<>> /\ media_id[1] = "/" THEN HassUrl \o media_id ELSE media_id

\* a faulty variant of the announcement: always at the initial volume
AmpliPiAnnouncer_announcement_initial_volume(self, media_id) ==
    [media |-> media_id, vol_f |-> Some(AmpliPiAnnouncer_init._volume)]

\* Announcement(media=media_id, vol_f=self._volume)
AmpliPiAnnouncer_announcement(self, media_id) ==
    [media |-> media_id, vol_f |-> Some(self._volume)]

(***************************************************************************)
(* Specification SpecCommands: one entity of any of the four kinds, polled *)
(* and commanded; the source and stream entities as in SpecSourceCmd and   *)
(* SpecStream.                                                             *)
(***************************************************************************)
\* the status snapshots of a commanded zone or group entity: two zones in a
\* group on a source; zone 0 disabled and out of the group, with other
\* volumes; and a device with neither source nor group nor zone 0
ZcSnapshots ==
    LET sources0 == <<Source(0, StreamInput(1000), Info(Str_playing, NoneStr))>>
        streams0 == <<Stream(1000, Str_Radio)>>
        zones0 == <<ZoneV(0, 0, FALSE, Some(50), Some(FALSE)), ZoneV(1, 0, FALSE, Some(20), Some(TRUE))>>
        groups0 == <<GroupV(0, 0, <<0, 1>>, Some(40), Some(FALSE))>>
    IN  { Status(sources0, zones0, groups0, streams0),
          Status(sources0, <<ZoneV(0, 0, TRUE, Some(60), Some(TRUE)), ZoneV(1, 0, FALSE, Some(20), Some(TRUE))>>,
                 <<GroupV(0, 0, <<1>>, Some(20), Some(TRUE))>>, streams0),
          Status(<<>>, <<ZoneV(1, 0, FALSE, Nothing, Nothing)>>, <<>>, streams0) }

\* the status of ZcSnapshots with both zones enabled
ZcSnapshots_first ==
    CHOOSE state \in ZcSnapshots :
        /\ Len(state.zones) = 2
        /\ \A i \in DOMAIN state.zones : ~state.zones[i].disabled

\* async_setup_entry: one AmpliPiZone per zone and per group of the first status
InitZoneCmd ==
    /\ \E first \in ZcSnapshots :
          \/ \E i \in DOMAIN first.zones :
                zg = AmpliPiZone_init(first.zones[i], Absent, first.streams, first.sources)
          \/ \E i \in DOMAIN first.groups :
                zg = AmpliPiZone_init(Absent, first.groups[i], first.streams, first.sources)
    /\ zg_pc = "idle"
    /\ zg_tmp = Absent
    /\ zg_last = Absent
    /\ calls = <<>>
    /\ cmd = [op |-> "none"]
    /\ NamesIdle /\ CodecIdle /\ UrlIdle /\ SrcIdle /\ StrmIdle /\ AnnIdle /\ InstallIdle

\* the volumes handed to the announcer's set_volume (hundredths; Nothing is
\* None), the ids handed to its play_media, and the URLs the host's resolver
\* gives for a media-source id
AnnVolumes == { Nothing } \cup { Some(10 * k) : k \in 0..10 }

AnnMediaIds ==
    { MEDIA_SOURCE \o <<"t", "t", "s">>, SCHEME \o <<"h", "/", "a">>, <<"/", "a">> }

AnnPlayItems == { <<"/", "t">>, SCHEME \o <<"h", "/", "t">> }

\* async_setup_entry: the one AmpliPiAnnouncer; cmd.requested is the volume of
\* the latest set_volume that carried one
InitAnnouncer ==
    /\ ann = AmpliPiAnnouncer_init
    /\ calls = <<>>
    /\ cmd = [op |-> "none", requested |-> Nothing]
    /\ NamesIdle /\ CodecIdle /\ UrlIdle /\ SrcIdle /\ ZgIdle /\ StrmIdle /\ InstallIdle

InitCommands == InitSourceCmd \/ InitStream \/ InitZoneCmd \/ InitAnnouncer

\* an operation of the zone or group entity that ends before any device call
ZgNoCall(op, arg) ==
    /\ zg' = zg
    /\ calls' = <<>>
    /\ cmd' = [op |-> op, arg |-> arg, raised |-> "no", sent |-> FALSE,
               refetched |-> FALSE, synced |-> FALSE]

\* the get_status() calls async_update made, given their answers
ZgStatusCalls(self, fetched1, fetched2, fetched3) ==
    IF fetched1 = FetchFailed \/ AmpliPiZone_update_locals(self, fetched1) = Absent
    THEN <<Call("get_status", Nothing)>>
    ELSE IF self._is_group /\ fetched2 = FetchFailed
    THEN <<Call("get_status", Nothing), Call("get_status", Nothing)>>
    ELSE IF self._is_group
    THEN <<Call("get_status", Nothing), Call("get_status", Nothing), Call("get_status", Nothing)>>
    ELSE <<Call("get_status", Nothing), Call("get_status", Nothing)>>

\* _update_zone / _update_group on the entity `self`: the device call raises,
\* or it returns and async_update runs
ZgCallThenUpdate(op, arg, self, call) ==
    \/ /\ zg' = self
       /\ calls' = <<call>>
       /\ cmd' = [op |-> op, arg |-> arg, raised |-> "DeviceError", sent |-> FALSE,
                  refetched |-> FALSE, synced |-> FALSE]
    \/ \E fetched1, fetched2, fetched3 \in ZcSnapshots \cup {FetchFailed} :
          LET r == AmpliPiZone_async_update(self, fetched1, fetched2, fetched3)
          IN  /\ zg' = r.self
              /\ calls' = <<call>> \o ZgStatusCalls(self, fetched1, fetched2, fetched3)
              /\ cmd' = [op |-> op, arg |-> arg, raised |-> r.raised, sent |-> TRUE,
                         refetched |-> TRUE, synced |-> r.synced]

\* the poll of the zone or group entity
ZgCmdPoll ==
    /\ zg # Absent
    /\ \E fetched1, fetched2, fetched3 \in ZcSnapshots \cup {FetchFailed} :
          LET r == AmpliPiZone_async_update(zg, fetched1, fetched2, fetched3)
          IN  /\ zg' = r.self
              /\ calls' = ZgStatusCalls(zg, fetched1, fetched2, fetched3)
              /\ cmd' = [op |-> "update", arg |-> Nothing, raised |-> r.raised, sent |-> FALSE,
                         refetched |-> TRUE, synced |-> r.synced]
    /\ UNCHANGED <<zg_pc, zg_tmp, zg_last, namesVars, codecVars, urlVars, srcVars, strmVars, annVars, installVars>>

ZgMuteVolume ==
    /\ zg # Absent
    /\ \E mute \in Mutes :
          IF IsNone(mute) THEN ZgNoCall("mute_volume", mute)
          ELSE ZgCallThenUpdate("mute_volume", mute, zg,
                   AmpliPiZone_update_call(zg, [mute |-> mute]))
    /\ UNCHANGED <<zg_pc, zg_tmp, zg_last, namesVars, codecVars, urlVars, srcVars, strmVars, annVars, installVars>>

ZgSetVolumeLevel ==
    /\ zg # Absent
    /\ \E volume \in Volumes :
          IF IsNone(volume) THEN ZgNoCall("set_volume_level", volume)
          ELSE ZgCallThenUpdate("set_volume_level", volume,
                   AmpliPiZone_write_volume(zg, volume),
                   AmpliPiZone_update_call(zg, [vol_f |-> volume]))
    /\ UNCHANGED <<zg_pc, zg_tmp, zg_last, namesVars, codecVars, urlVars, srcVars, strmVars, annVars, installVars>>

\* AmpliPiAnnouncer.async_set_volume_level: no device call
AnnSetVolumeLevel ==
    /\ ann # Absent
    /\ \E volume \in AnnVolumes :
          /\ ann' = AmpliPiAnnouncer_set_volume_level(ann, volume)
          /\ cmd' = [op |-> "set_volume_level", arg |-> volume, raised |-> "no", sent |-> FALSE,
                     refetched |-> FALSE,
                     requested |-> IF IsNone(volume) THEN cmd.requested ELSE volume]
    /\ calls' = <<>>
    /\ UNCHANGED <<namesVars, codecVars, urlVars, srcVars, zgVars, strmVars, installVars>>

\* AmpliPiAnnouncer.async_play_media: a media-source id is resolved by the
\* host to play_item.url, the URL is processed, and announce is called at the
\* stored volume; the call may fail
AnnPlayMedia ==
    /\ ann # Absent
    /\ \E media_id \in AnnMediaIds :
       \E url \in IF is_media_source_id(media_id) THEN AnnPlayItems ELSE {media_id} :
       \E returned \in BOOLEAN :
          /\ calls' = <<Call("announce",
                             AmpliPiAnnouncer_announcement(ann, async_process_play_media_url(url)))>>
          /\ cmd' = [op |-> "play_media", arg |-> media_id, resolved |-> url,
                     raised |-> IF returned THEN "no" ELSE "DeviceError",
                     sent |-> returned, refetched |-> FALSE, requested |-> cmd.requested]
    /\ UNCHANGED <<ann, namesVars, codecVars, urlVars, srcVars, zgVars, strmVars, installVars>>

NextCommands ==
    \/ NextSourceCmd
    \/ NextStream
    \/ ZgCmdPoll
    \/ ZgMuteVolume
    \/ ZgSetVolumeLevel
    \/ AnnSetVolumeLevel
    \/ AnnPlayMedia

SpecCommands == InitCommands /\ [][NextCommands]_vars

\* C18: set_volume(None) and set_mute(None), on an entity of any kind, make no
\* device call and leave every cached field as it was
C18_AbsentArgumentIsNoOp ==
    [][(cmd'.op \in {"set_volume_level", "mute_volume"} /\ cmd'.arg = Nothing)
          => /\ calls' = <<>>
             /\ cmd'.raised = "no"
             /\ src' = src /\ zg' = zg /\ strm' = strm /\ ann' = ann]_vars

\* C18 witness: set_mute(None) on a source entity that has zones and a group
\* to address, and nothing was called
C18_Witness ==
    /\ cmd.op = "mute_volume"
    /\ cmd.arg = Nothing
    /\ src # Absent
    /\ src._zones # <<>>
    /\ src._groups # <<>>
    /\ calls = <<>>

\* the volume the source or zone/group entity reports
ReportedVolume ==
    IF src # Absent THEN AmpliPiSource_volume_level(src)
    ELSE IF zg # Absent THEN AmpliPiZone_volume_level(zg)
    ELSE Absent

\* the last operation synced the entity's cache from a status it fetched
CmdSynced ==
    /\ cmd.op # "none"
    /\ IF src # Absent
       THEN cmd.refetched /\ cmd.fetched # FetchFailed /\ OwnSource(cmd.fetched) # Absent
       ELSE IF zg # Absent THEN cmd.synced
       ELSE FALSE

\* set_volume has a cached record to write to: a source needs a group or zone
\* with a volume, a zone or group entity always has its own record
HasVolumeRecord ==
    IF src # Absent
    THEN FirstWithVolume(src._groups) # 0 \/ FirstWithVolume(src._zones) # 0
    ELSE zg # Absent

\* C20 as claimed: the volume a source or zone/group entity reports changes
\* only in an operation that synced the cache from a fetched status
C20_VolumeOnlyFromSnapshot ==
    [][((src # Absent \/ zg # Absent) /\ ReportedVolume' # ReportedVolume) => CmdSynced']_vars

\* C20 as amended: the reported volume changes only in an operation that
\* synced the cache from a fetched status or in set_volume, which writes the
\* requested level into the cache before its device call; after a set_volume
\* whose device call or re-fetch failed the entity reports the requested level
C20_VolumeFromSnapshotOrRequest ==
    [][(src # Absent \/ zg # Absent) =>
          /\ ReportedVolume' # ReportedVolume =>
                (CmdSynced' \/ (cmd'.op = "set_volume_level" /\ cmd'.arg # Nothing))
          /\ (cmd'.op = "set_volume_level" /\ cmd'.arg # Nothing /\ ~CmdSynced' /\ HasVolumeRecord) =>
                ReportedVolume' = Num(cmd'.arg[1])]_vars

\* C20 witness: set_volume(0.30) on a source whose device call raised; the
\* entity, synced before from a status with volumes 0.40 and 0.50, reports 0.30
C20_Witness ==
    /\ cmd.op = "set_volume_level"
    /\ cmd.arg = Some(30)
    /\ cmd.raised = "DeviceError"
    /\ ~cmd.sent
    /\ src # Absent
    /\ src._last_update_successful
    /\ AmpliPiSource_volume_level(src) = Num(30)

(***************************************************************************)
(* Specification SpecZoneSelect: one AmpliPiZone entity (a zone or a       *)
(* group), polled and told to select a source                              *)
(***************************************************************************)
\* a label stored where a source record is expected
Label(source) == [label |-> source]

\* labels handed to the zone's select_source: two source names and a label
\* without digits
ZcLabels == { SourceName(0), SourceName(1), Str_Radio }

\* the answers of the three get_status() calls of one async_update run by
\* select_source: the same status each time, or a failure from the first,
\* the second or the third call on
ZcUpdateAnswers ==
    { <<state, state, state>> : state \in ZcSnapshots }
      \cup { <<state, state, FetchFailed>> : state \in ZcSnapshots }
      \cup { <<state, FetchFailed, FetchFailed>> : state \in ZcSnapshots }
      \cup { <<FetchFailed, FetchFailed, FetchFailed>> }

\* async_select_source: the codec may raise before anything is written; the
\* label itself is stored as current source; the device call may raise; then
\* async_update runs inside _update_zone/_update_group and, if that returned,
\* once more
ZgSelectSource ==
    /\ zg # Absent
    /\ \E source \in ZcLabels :
          LET source_id == extract_source_id_from_name(source)
              labelled == [zg EXCEPT !._current_source = Label(source)]
              call == AmpliPiZone_update_call(zg, [source_id |-> source_id.value])
          IN  IF source_id.raised # "no"
              THEN /\ zg' = zg
                   /\ calls' = <<>>
                   /\ cmd' = [op |-> "select_source", arg |-> source, raised |-> source_id.raised,
                              sent |-> FALSE, refetched |-> FALSE, synced |-> FALSE]
              ELSE \/ /\ zg' = labelled
                      /\ calls' = <<call>>
                      /\ cmd' = [op |-> "select_source", arg |-> source, raised |-> "DeviceError",
                                 sent |-> FALSE, refetched |-> FALSE, synced |-> FALSE]
                   \/ \E a \in ZcUpdateAnswers, b \in ZcUpdateAnswers :
                         LET first == AmpliPiZone_async_update(labelled, a[1], a[2], a[3])
                             second == AmpliPiZone_async_update(first.self, b[1], b[2], b[3])
                         IN  IF first.raised # "no"
                             THEN /\ zg' = first.self
                                  /\ calls' = <<call>> \o ZgStatusCalls(labelled, a[1], a[2], a[3])
                                  /\ cmd' = [op |-> "select_source", arg |-> source,
                                             raised |-> first.raised, sent |-> TRUE,
                                             refetched |-> TRUE, synced |-> FALSE]
                             ELSE /\ zg' = second.self
                                  /\ calls' = <<call>> \o ZgStatusCalls(labelled, a[1], a[2], a[3])
                                                 \o ZgStatusCalls(first.self, b[1], b[2], b[3])
                                  /\ cmd' = [op |-> "select_source", arg |-> source,
                                             raised |-> second.raised, sent |-> TRUE,
                                             refetched |-> TRUE, synced |-> second.synced]
    /\ UNCHANGED <<zg_pc, zg_tmp, zg_last, namesVars, codecVars, urlVars, srcVars, strmVars, annVars, installVars>>

NextZoneSelect == ZgCmdPoll \/ ZgSelectSource

SpecZoneSelect == InitZoneCmd /\ [][NextZoneSelect]_vars

\* C21: select_source of a zone or group entity sends, if anything, the
\* number in the label minus one as source id, and whatever the label and
\* whatever the outcome of the device call, it fetched the status afterwards
C21_SelectAlwaysRefetches ==
    cmd.op = "select_source" =>
        /\ \A i \in DOMAIN calls :
              calls[i].fn \in {"set_zone", "set_zones"} =>
                  calls[i].arg.update.source_id = StrToInt(FirstDigitRun(cmd.arg)) - 1
        /\ \E i \in DOMAIN calls : calls[i].fn = "get_status"

\* C34: the cached current source of a zone or group entity is always either
\* absent or a source record of a fetched status, never the label that
\* select_source was given, also when the device call or the fetch after it
\* fails
C34_CurrentSourceIsRecord ==
    zg # Absent =>
        \/ zg._current_source = Absent
        \/ DOMAIN zg._current_source = DOMAIN Source(0, Str_local, Absent)

(***************************************************************************)
(* Specification SpecAnnouncer: the AmpliPiAnnouncer entity                *)
(***************************************************************************)
NextAnnouncer == AnnSetVolumeLevel \/ AnnPlayMedia

SpecAnnouncer == InitAnnouncer /\ [][NextAnnouncer]_vars

\* C26: the announcer's state is always idle; set_volume with a volume only
\* stores it and calls nothing; play_media makes exactly one call, announce,
\* with the volume of the latest set_volume that carried one (0.5 without
\* one) and the media URL as resolved and processed by the host
C26_AnnouncerPassThrough ==
    /\ AmpliPiAnnouncer_state(ann) = STATE_IDLE
    /\ (cmd.op = "set_volume_level" /\ cmd.arg # Nothing) =>
          /\ calls = <<>>
          /\ ann = [AmpliPiAnnouncer_init EXCEPT !._volume = cmd.arg[1]]
    /\ cmd.op = "play_media" =>
          /\ Len(calls) = 1
          /\ calls[1].fn = "announce"
          /\ calls[1].arg.vol_f = (IF cmd.requested = Nothing THEN Some(50) ELSE cmd.requested)
          /\ calls[1].arg.media = (IF is_media_source_id(cmd.arg)
                                   THEN async_process_play_media_url(cmd.resolved)
                                   ELSE async_process_play_media_url(cmd.arg))

\* an announcement of a resolved media-source id after two different volumes
\* were set, neither the initial one
C26_Witness ==
    /\ cmd.op = "play_media"
    /\ is_media_source_id(cmd.arg)
    /\ cmd.resolved[1] = "/"
    /\ cmd.requested # Nothing
    /\ cmd.requested # Some(50)
    /\ calls[1].arg.vol_f = cmd.requested

(***************************************************************************)
(* Specification SpecInstall: install_sensors_yaml, run by every set-up of *)
(* the integration, and the user editing the installed file in between     *)
(***************************************************************************)
MaxSetups == 2

MaxLines == 3

\* a file with the given lines
File(lines) == [lines |-> lines]

\* the file shipped next to __init__.py, and the files a user can make of it:
\* up to MaxLines lines, each a line of the shipped file or a line of the user
SensorsSource == File(<<"template", "sensor">>)

YamlLines == { "template", "sensor", "user" }

RECURSIVE LinesUpTo(_)
LinesUpTo(n) ==
    IF n = 0 THEN { <<>> }
    ELSE LinesUpTo(n - 1)
           \cup { Append(lines, line) : lines \in { l \in LinesUpTo(n - 1) : Len(l) = n - 1 },
                                        line \in YamlLines }

YamlFiles == { File(lines) : lines \in LinesUpTo(MaxLines) }

\* shutil.copy(src, dst): dst holds the content of src afterwards, whether or
\* not it existed
shutil_copy(source, destination) == source

\* install_sensors_yaml on a configuration directory: the sensors directory is
\* made when missing, then the shipped file is copied to its place
install_sensors_yaml(config) ==
    [ sensors_dir |-> TRUE,
      sensors_yaml |-> shutil_copy(SensorsSource, config.sensors_yaml) ]

\* a fresh configuration directory, one with a sensors directory, or one that
\* holds the file from an earlier installation, possibly edited
InitInstall ==
    /\ \/ sensors_dir = FALSE /\ sensors_yaml = Absent
       \/ sensors_dir = TRUE /\ sensors_yaml \in {Absent} \cup YamlFiles
    /\ setups = 0
    /\ NamesIdle /\ CodecIdle /\ UrlIdle /\ SrcIdle /\ ZgIdle /\ StrmIdle /\ AnnIdle /\ OpIdle

\* async_setup_entry: hass.async_add_executor_job(install_sensors_yaml, hass)
SetupEntry ==
    /\ setups < MaxSetups
    /\ LET config == install_sensors_yaml([sensors_dir |-> sensors_dir, sensors_yaml |-> sensors_yaml])
       IN  /\ sensors_dir' = config.sensors_dir
           /\ sensors_yaml' = config.sensors_yaml
    /\ setups' = setups + 1
    /\ UNCHANGED <<namesVars, codecVars, urlVars, srcVars, zgVars, strmVars, annVars, opVars>>

\* the user rewrites the installed file
UserEdit ==
    /\ sensors_dir
    /\ sensors_yaml # Absent
    /\ \E edited \in YamlFiles : sensors_yaml' = edited
    /\ UNCHANGED <<sensors_dir, setups, namesVars, codecVars, urlVars, srcVars, zgVars, strmVars,
                   annVars, opVars>>

NextInstall == SetupEntry \/ UserEdit

SpecInstall == InitInstall /\ [][NextInstall]_vars

\* C28: a set-up of the integration leaves an existing
\* <config>/sensors/hacs_amplipi_sensors.yaml as it is, so that the content
\* of an existing file survives any number of set-ups
C28_ExistingFileKept ==
    [][ (setups' = setups + 1 /\ sensors_yaml # Absent) => sensors_yaml' = sensors_yaml ]_vars

(***************************************************************************)
(* Specification SpecSetup: the entities async_setup_entry makes of one    *)
(* status (a source, a zone or group, a stream and the announcer), each    *)
(* polled on its own; the zone's update is interleaved at its awaits       *)
(***************************************************************************)
\* the entities as one record
Entities == [src |-> src, zg |-> zg, strm |-> strm, ann |-> ann]

\* a faulty variant: the last-update-successful flag is one attribute shared
\* by the entities
UpdateFetchFails_shared_flag(all, entity) ==
    [all EXCEPT !.src._last_update_successful = FALSE,
                !.zg._last_update_successful = FALSE,
                !.strm._last_update_successful = FALSE]

\* the entities after async_update of one of them whose get_status() raised
UpdateFetchFails(all, entity) ==
    CASE entity = "src" ->
            [all EXCEPT !.src = AmpliPiSource_async_update(all.src, FetchFailed)]
      [] entity = "strm" ->
            [all EXCEPT !.strm = AmpliPiStream_async_update(all.strm, FetchFailed).self]
      [] entity = "zg" ->
            [all EXCEPT !.zg = AmpliPiZone_async_update(all.zg, FetchFailed, FetchFailed, FetchFailed).self]

\* async_setup_entry: every entity is made of the same first status
InitSetup ==
    /\ \E first \in { state \in ZcSnapshots : state.sources # <<>> /\ state.groups # <<>> } :
          /\ src = AmpliPiSource_init(first.sources[1], first.streams)
          /\ \/ \E i \in DOMAIN first.zones :
                   zg = AmpliPiZone_init(first.zones[i], Absent, first.streams, first.sources)
             \/ zg = AmpliPiZone_init(Absent, first.groups[1], first.streams, first.sources)
          /\ strm = AmpliPiStream_init(first.streams[1], first.sources)
    /\ ann = AmpliPiAnnouncer_init
    /\ src_last = Absent
    /\ zg_pc = "idle"
    /\ zg_tmp = Absent
    /\ zg_last = Absent
    /\ calls = <<>>
    /\ cmd = [op |-> "none"]
    /\ NamesIdle /\ CodecIdle /\ UrlIdle /\ InstallIdle

\* one step of one entity's update leaves `all`; cmd tells whose step it was
\* and whether the get_status() of the step raised
SetupStep(all, entity, failed) ==
    /\ src' = all.src
    /\ zg' = all.zg
    /\ strm' = all.strm
    /\ ann' = all.ann
    /\ calls' = <<Call("get_status", Nothing)>>
    /\ cmd' = [op |-> "update", entity |-> entity, failed |-> failed]
    /\ UNCHANGED <<src_last, zg_last, namesVars, codecVars, urlVars, installVars>>

\* the poll of the source entity
SetupSourceUpdate ==
    /\ \E fetched \in ZcSnapshots \cup {FetchFailed} :
          SetupStep(IF fetched = FetchFailed THEN UpdateFetchFails(Entities, "src")
                    ELSE [Entities EXCEPT !.src = AmpliPiSource_async_update(src, fetched)],
                    "src", fetched = FetchFailed)
    /\ UNCHANGED <<zg_pc, zg_tmp>>

\* the poll of the stream entity
SetupStreamUpdate ==
    /\ \E fetched \in ZcSnapshots \cup {FetchFailed} :
          SetupStep(IF fetched = FetchFailed THEN UpdateFetchFails(Entities, "strm")
                    ELSE [Entities EXCEPT !.strm = AmpliPiStream_async_update(strm, fetched).self],
                    "strm", fetched = FetchFailed)
    /\ UNCHANGED <<zg_pc, zg_tmp>>

\* the poll of the zone or group entity, up to its second await
SetupZoneFetch ==
    /\ zg_pc = "idle"
    /\ \E fetched \in ZcSnapshots \cup {FetchFailed} :
          IF fetched = FetchFailed
          THEN /\ SetupStep(UpdateFetchFails(Entities, "zg"), "zg", TRUE)
               /\ UNCHANGED <<zg_pc, zg_tmp>>
          ELSE LET locals == AmpliPiZone_update_locals(zg, fetched)
               IN  IF locals = Absent
                   THEN /\ SetupStep([Entities EXCEPT !.zg._last_update_successful = FALSE], "zg", FALSE)
                        /\ UNCHANGED <<zg_pc, zg_tmp>>
                   ELSE /\ zg_tmp' = locals
                        /\ IF zg._is_group
                           THEN zg_pc' = "extra" /\ SetupStep(Entities, "zg", FALSE)
                           ELSE /\ zg_pc' = "available"
                                /\ SetupStep([Entities EXCEPT !.zg = AmpliPiZone_get_extra_attributes_zone(zg)],
                                             "zg", FALSE)

\* the get_status() of a group's _get_extra_attributes answers or raises
SetupZoneExtra ==
    /\ zg_pc = "extra"
    /\ \E fetched \in ZcSnapshots \cup {FetchFailed} :
          IF fetched = FetchFailed
          THEN /\ SetupStep(Entities, "zg", TRUE)
               /\ zg_pc' = "idle"
               /\ zg_tmp' = Absent
          ELSE /\ SetupStep([Entities EXCEPT !.zg = AmpliPiZone_get_extra_attributes_group(zg, fetched)],
                            "zg", FALSE)
               /\ zg_pc' = "available"
               /\ zg_tmp' = zg_tmp

\* the get_status() of _update_available answers or raises; then sync_state
SetupZoneAvailable ==
    /\ zg_pc = "available"
    /\ \E fetched \in ZcSnapshots \cup {FetchFailed} :
          IF fetched = FetchFailed
          THEN SetupStep(Entities, "zg", TRUE)
          ELSE LET available == AmpliPiZone_update_available(zg, fetched)
               IN  SetupStep([Entities EXCEPT !.zg =
                                 AmpliPiZone_sync_state([zg EXCEPT !._available = available],
                                     zg_tmp.zone, zg_tmp.group, zg_tmp.state.streams,
                                     zg_tmp.state.sources, zg_tmp.enabled)],
                             "zg", FALSE)
    /\ zg_pc' = "idle"
    /\ zg_tmp' = Absent

NextSetup ==
    \/ SetupSourceUpdate
    \/ SetupStreamUpdate
    \/ SetupZoneFetch
    \/ SetupZoneExtra
    \/ SetupZoneAvailable

SpecSetup == InitSetup /\ [][NextSetup]_vars

\* C25: a step of one entity's update whose status fetch failed changes
\* nothing of the other entities, whatever the other entities were doing:
\* their cached view, last-update-successful flag and availability stay
C25_FailedFetchLeavesSiblings ==
    [][ (cmd'.op = "update" /\ cmd'.failed) =>
            /\ (cmd'.entity # "src" => src' = src)
            /\ (cmd'.entity # "zg" => zg' = zg /\ zg_pc' = zg_pc /\ zg_tmp' = zg_tmp)
            /\ (cmd'.entity # "strm" => strm' = strm)
            /\ ann' = ann ]_vars

\* the source's fetch failed while the zone's update was suspended at its
\* last await, the zone and the stream still marked as updated
C25_Witness ==
    /\ cmd.op = "update" /\ cmd.failed /\ cmd.entity = "src"
    /\ ~src._last_update_successful
    /\ zg_pc = "available"
    /\ zg._last_update_successful
    /\ strm._last_update_successful
    /\ AmpliPiZone_available(zg)

(***************************************************************************)
(* Specification SpecLifecycle: one entity of any kind from construction   *)
(* on, polled with updates that fail and updates that succeed              *)
(***************************************************************************)
MaxFailures == 2

\* the status snapshots: a status with a playing source, an enabled and a
\* disabled zone, a group and the stream, and the statuses that differ from
\* it in the source, or lack the sources, the zones and groups, or the stream
LcSnapshots ==
    LET sources0 == <<Source(0, StreamInput(1000), Info(Str_playing, NoneStr))>>
        streams0 == <<Stream(1000, Str_Radio)>>
        zones0 == <<ZoneV(0, 0, FALSE, Some(50), Some(FALSE)), ZoneV(1, 0, TRUE, Some(20), Some(TRUE))>>
        groups0 == <<GroupV(0, 0, <<0, 1>>, Some(40), Some(FALSE))>>
    IN  { Status(sources0, zones0, groups0, streams0),
          Status(<<Source(0, StreamInput(1000), Info(Str_paused, NoneStr))>>, zones0, groups0, streams0),
          Status(<<Source(0, Str_local, Absent)>>, zones0, groups0, streams0),
          Status(<<>>, zones0, groups0, streams0),
          Status(sources0, <<>>, <<>>, streams0),
          Status(sources0, zones0, groups0, <<>>) }

\* the ghost of an entity that was not updated yet
LcConstructed == [op |-> "none", requested |-> Nothing, failures |-> 0, had_ok |-> FALSE]

\* async_setup_entry: one entity of the first status, or the announcer
InitLifecycle ==
    /\ \E first \in { state \in LcSnapshots : state.sources # <<>> /\ state.zones # <<>>
                                              /\ state.streams # <<>> } :
          \/ /\ src = AmpliPiSource_init(first.sources[1], first.streams)
             /\ src_last = Absent
             /\ ZgIdle /\ StrmIdle /\ AnnIdle
          \/ /\ \/ \E i \in DOMAIN first.zones :
                      zg = AmpliPiZone_init(first.zones[i], Absent, first.streams, first.sources)
                \/ zg = AmpliPiZone_init(Absent, first.groups[1], first.streams, first.sources)
             /\ zg_pc = "idle" /\ zg_tmp = Absent /\ zg_last = Absent
             /\ SrcIdle /\ StrmIdle /\ AnnIdle
          \/ /\ strm = AmpliPiStream_init(first.streams[1], first.sources)
             /\ SrcIdle /\ ZgIdle /\ AnnIdle
          \/ /\ ann = AmpliPiAnnouncer_init
             /\ SrcIdle /\ ZgIdle /\ StrmIdle
    /\ calls = <<>>
    /\ cmd = LcConstructed
    /\ NamesIdle /\ CodecIdle /\ UrlIdle /\ InstallIdle

\* the ghost of an update: the status of its first fetch, whether it synced
\* the cache, the failed updates in a row before it (`after`) and up to it
LcUpdated(entity, fetched, ok) ==
    [ op |-> "update", entity |-> entity, fetched |-> fetched, ok |-> ok,
      after |-> cmd.failures,
      failures |-> IF ok THEN 0
                   ELSE IF cmd.failures < MaxFailures THEN cmd.failures + 1 ELSE MaxFailures,
      had_ok |-> cmd.had_ok \/ ok ]

\* the answers of the get_status() calls of one zone or group update
LcUpdateAnswers ==
    { <<state, state, state>> : state \in LcSnapshots }
      \cup { <<state, state, FetchFailed>> : state \in LcSnapshots }
      \cup { <<state, FetchFailed, FetchFailed>> : state \in LcSnapshots }
      \cup { <<FetchFailed, FetchFailed, FetchFailed>> }

LcSourceUpdate ==
    /\ src # Absent
    /\ \E fetched \in LcSnapshots \cup {FetchFailed} :
          /\ src' = AmpliPiSource_async_update(src, fetched)
          /\ cmd' = LcUpdated("src", fetched,
                        fetched # FetchFailed /\ \E i \in DOMAIN fetched.sources : fetched.sources[i].id = src._id)
    /\ calls' = <<Call("get_status", Nothing)>>
    /\ UNCHANGED <<src_last, namesVars, codecVars, urlVars, zgVars, strmVars, annVars, installVars>>

LcZoneUpdate ==
    /\ zg # Absent
    /\ \E a \in LcUpdateAnswers :
          LET r == AmpliPiZone_async_update(zg, a[1], a[2], a[3])
          IN  /\ zg' = r.self
              /\ calls' = ZgStatusCalls(zg, a[1], a[2], a[3])
              /\ cmd' = LcUpdated("zg", a[1], r.synced)
    /\ UNCHANGED <<zg_pc, zg_tmp, zg_last, namesVars, codecVars, urlVars, srcVars, strmVars, annVars,
                   installVars>>

LcStreamUpdate ==
    /\ strm # Absent
    /\ \E fetched \in LcSnapshots \cup {FetchFailed} :
          LET r == AmpliPiStream_async_update(strm, fetched)
          IN  /\ strm' = r.self
              /\ cmd' = LcUpdated("strm", fetched,
                            fetched # FetchFailed /\ r.raised = "no")
    /\ calls' = <<Call("get_status", Nothing)>>
    /\ UNCHANGED <<namesVars, codecVars, urlVars, srcVars, zgVars, annVars, installVars>>

NextLifecycle ==
    \/ LcSourceUpdate
    \/ LcZoneUpdate
    \/ LcStreamUpdate
    \/ AnnSetVolumeLevel
    \/ AnnPlayMedia

SpecLifecycle == InitLifecycle /\ [][NextLifecycle]_vars

\* the playback state that a source record (or its absence) stands for
StateOfRecord(source) ==
    IF source = Absent THEN STATE_IDLE
    ELSE IF source.info = Absent THEN STATE_IDLE
    ELSE IF source.info.state = NoneStr THEN STATE_IDLE
    ELSE IF IsSubstring(source.info.state, Str_paused) THEN STATE_PAUSED
    ELSE IF IsSubstring(source.info.state, Str_playing) THEN STATE_PLAYING
    ELSE STATE_IDLE

\* the source of status S that the updated entity plays from: a source
\* entity's own record, the source a zone's or group's record in S names, the
\* source whose input is the stream
LcSourceIn(S) ==
    LET owner == IF zg = Absent THEN 0 - 1
                 ELSE IF zg._is_group
                 THEN FirstMatch(S.groups, {i \in DOMAIN S.groups : S.groups[i].id = zg._id}, Absent).source_id
                 ELSE FirstMatch(S.zones, {i \in DOMAIN S.zones : S.zones[i].id = zg._id}, Absent).source_id
        hits == IF src # Absent THEN { i \in DOMAIN S.sources : S.sources[i].id = src._id }
                ELSE IF zg # Absent THEN { i \in DOMAIN S.sources : S.sources[i].id = owner }
                ELSE { i \in DOMAIN S.sources : S.sources[i].input = StreamInput(strm._id) }
    IN  FirstMatch(S.sources, hits, Absent)

\* the entity's flag and state, whatever its kind
LcFlag ==
    IF src # Absent THEN src._last_update_successful
    ELSE IF zg # Absent THEN zg._last_update_successful
    ELSE strm._last_update_successful

LcState ==
    IF src # Absent THEN AmpliPiSource_state(src)
    ELSE IF zg # Absent THEN AmpliPiZone_state(zg)
    ELSE AmpliPiStream_state(strm)

\* C31: a successful update of a source, zone/group or stream entity, after
\* any number of failed ones, sets the last-update-successful flag, and the
\* state is the one of the new status, not unknown
C31_UnknownNotAbsorbing ==
    (ann = Absent /\ cmd.op = "update" /\ cmd.ok) =>
        /\ LcFlag = TRUE
        /\ LcState # STATE_UNKNOWN
        /\ LcState = StateOfRecord(LcSourceIn(cmd.fetched))

\* a successful update from a status with a paused source, after as many
\* failed updates in a row as the model counts
C31_Witness ==
    /\ ann = Absent /\ cmd.op = "update" /\ cmd.ok
    /\ cmd.after = MaxFailures
    /\ LcState = STATE_PAUSED

\* C40: until its first successful update a source, zone/group or stream
\* entity reports state unknown, and a zone/group or stream entity reports
\* available False; the announcer reports idle and available True throughout
C40_ConstructionStates ==
    /\ ann # Absent =>
          /\ AmpliPiAnnouncer_state(ann) = STATE_IDLE
          /\ ann._available = TRUE
    /\ (ann = Absent /\ ~cmd.had_ok) =>
          /\ LcState = STATE_UNKNOWN
          /\ zg # Absent => AmpliPiZone_available(zg) = FALSE
          /\ strm # Absent => AmpliPiStream_available(strm) = FALSE

(***************************************************************************)
(* Specification SpecOverlap: one zone or group entity with two            *)
(* coroutines requested by the host, its poll and a service call that ends *)
(* in _update_zone/_update_group.  The host runs at most PARALLEL_UPDATES  *)
(* of the platform's updates and service calls at a time.  Here zg_pc and  *)
(* zg_tmp hold the position and the locals of each coroutine, and zg_last  *)
(* numbers the fetched statuses.                                           *)
(***************************************************************************)
PARALLEL_UPDATES == 1

Coroutines == {"poll", "command"}

\* the coroutines that hold the host's semaphore
OvRunning == { c \in Coroutines : zg_pc[c] \in {"call", "fetch", "extra", "available"} }

\* a faulty variant: the platform sets no limit
HostMayStart_unlimited(running) == TRUE

\* the host's semaphore of PARALLEL_UPDATES places (no semaphore for 0)
HostMayStart(running) == PARALLEL_UPDATES = 0 \/ running < PARALLEL_UPDATES

\* async_setup_entry made the entity of status number 0; nothing is requested
InitOverlap ==
    /\ \E i \in DOMAIN ZcSnapshots_first.zones :
          \/ zg = AmpliPiZone_init(ZcSnapshots_first.zones[i], Absent,
                                   ZcSnapshots_first.streams, ZcSnapshots_first.sources)
          \/ zg = AmpliPiZone_init(Absent, ZcSnapshots_first.groups[1],
                                   ZcSnapshots_first.streams, ZcSnapshots_first.sources)
    /\ zg_pc = [c \in Coroutines |-> "idle"]
    /\ zg_tmp = [c \in Coroutines |-> Absent]
    /\ zg_last = [clock |-> 1, view |-> 0, installed |-> 0, syncs |-> 0, overlap |-> FALSE]
    /\ calls = <<>>
    /\ cmd = [op |-> "none"]
    /\ NamesIdle /\ CodecIdle /\ UrlIdle /\ SrcIdle /\ StrmIdle /\ AnnIdle /\ InstallIdle

OvFrame == UNCHANGED <<cmd, namesVars, codecVars, urlVars, srcVars, strmVars, annVars, installVars>>

\* the host's scheduler asks for the poll, or a user for the service call
OvRequest(c) ==
    /\ zg_pc[c] = "idle"
    /\ zg_pc' = [zg_pc EXCEPT ![c] = "waiting"]
    /\ zg_last' = [zg_last EXCEPT !.overlap = @ \/ OvRunning # {}]
    /\ UNCHANGED <<zg, zg_tmp, calls>>
    /\ OvFrame

\* the host lets a requested coroutine run: the poll starts async_update,
\* the service call its device call
OvStart(c) ==
    /\ zg_pc[c] = "waiting"
    /\ HostMayStart(Cardinality(OvRunning))
    /\ zg_pc' = [zg_pc EXCEPT ![c] = IF c = "poll" THEN "fetch" ELSE "call"]
    /\ zg_last' = [zg_last EXCEPT !.overlap = @ \/ OvRunning # {}]
    /\ UNCHANGED <<zg, zg_tmp, calls>>
    /\ OvFrame

\* _update_zone/_update_group: set_zone/set_zones returns or raises
OvCall ==
    /\ zg_pc["command"] = "call"
    /\ calls' = Append(calls, AmpliPiZone_update_call(zg, [mute |-> Some(TRUE)]))
    /\ \E returned \in BOOLEAN :
          zg_pc' = [zg_pc EXCEPT !["command"] = IF returned THEN "fetch" ELSE "done"]
    /\ UNCHANGED <<zg, zg_tmp, zg_last>>
    /\ OvFrame

\* async_update: its get_status() raises, or returns the device's next status
OvFetch(c) ==
    /\ zg_pc[c] = "fetch"
    /\ calls' = Append(calls, Call("get_status", Nothing))
    /\ \E fetched \in ZcSnapshots \cup {FetchFailed} :
          LET locals == IF fetched = FetchFailed THEN Absent
                        ELSE AmpliPiZone_update_locals(zg, fetched)
          IN  IF locals = Absent
              THEN /\ zg' = [zg EXCEPT !._last_update_successful = FALSE]
                   /\ zg_pc' = [zg_pc EXCEPT ![c] = "done"]
                   /\ UNCHANGED <<zg_tmp, zg_last>>
              ELSE /\ zg_tmp' = [zg_tmp EXCEPT ![c] = [locals |-> locals, number |-> zg_last.clock]]
                   /\ zg_last' = [zg_last EXCEPT !.clock = @ + 1]
                   /\ IF zg._is_group
                      THEN zg' = zg /\ zg_pc' = [zg_pc EXCEPT ![c] = "extra"]
                      ELSE /\ zg' = AmpliPiZone_get_extra_attributes_zone(zg)
                           /\ zg_pc' = [zg_pc EXCEPT ![c] = "available"]
    /\ OvFrame

\* the get_status() of a group's _get_extra_attributes
OvExtra(c) ==
    /\ zg_pc[c] = "extra"
    /\ calls' = Append(calls, Call("get_status", Nothing))
    /\ \E fetched \in ZcSnapshots \cup {FetchFailed} :
          IF fetched = FetchFailed
          THEN /\ zg' = zg
               /\ zg_pc' = [zg_pc EXCEPT ![c] = "done"]
               /\ zg_tmp' = [zg_tmp EXCEPT ![c] = Absent]
          ELSE /\ zg' = AmpliPiZone_get_extra_attributes_group(zg, fetched)
               /\ zg_pc' = [zg_pc EXCEPT ![c] = "available"]
               /\ zg_tmp' = zg_tmp
    /\ UNCHANGED zg_last
    /\ OvFrame

\* the get_status() of _update_available, then sync_state with the locals
OvAvailable(c) ==
    /\ zg_pc[c] = "available"
    /\ calls' = Append(calls, Call("get_status", Nothing))
    /\ \E fetched \in ZcSnapshots \cup {FetchFailed} :
          IF fetched = FetchFailed
          THEN UNCHANGED <<zg, zg_last>>
          ELSE LET locals == zg_tmp[c].locals
               IN  /\ zg' = AmpliPiZone_sync_state(
                               [zg EXCEPT !._available = AmpliPiZone_update_available(zg, fetched)],
                               locals.zone, locals.group, locals.state.streams,
                               locals.state.sources, locals.enabled)
                   /\ zg_last' = [zg_last EXCEPT
                                     !.view = zg_tmp[c].number,
                                     !.installed = IF zg_tmp[c].number > @ THEN zg_tmp[c].number ELSE @,
                                     !.syncs = @ + 1]
    /\ zg_pc' = [zg_pc EXCEPT ![c] = "done"]
    /\ zg_tmp' = [zg_tmp EXCEPT ![c] = Absent]
    /\ OvFrame

NextOverlap ==
    \/ \E c \in Coroutines : OvRequest(c)
    \/ \E c \in Coroutines : OvStart(c)
    \/ OvCall
    \/ \E c \in Coroutines : OvFetch(c)
    \/ \E c \in Coroutines : OvExtra(c)
    \/ \E c \in Coroutines : OvAvailable(c)

SpecOverlap == InitOverlap /\ [][NextOverlap]_vars

AmpliPiStream_volume_level(self) ==
    IF self._current_source = Absent THEN Absent
    ELSE IF FirstWithVolume(self._current_groups) # 0
    THEN Num(self._current_groups[FirstWithVolume(self._current_groups)].vol_f[1])
    ELSE IF FirstWithVolume(self._current_zones) # 0
    THEN Num(self._current_zones[FirstWithVolume(self._current_zones)].vol_f[1])
    ELSE Absent

\* async_volume_up, the same text in the three classes, given the value of
\* self.volume_level: `level is not None and level < 1` and then
\* min(1, level + 0.01).  The result is the argument of async_set_volume_level
\* (Nothing: it is not called); comparing a str with 1 raises TypeError
async_volume_up(level) ==
    IF level = Absent THEN Returned(Nothing)
    ELSE IF level = Text(STATE_UNKNOWN) THEN Raised("TypeError")
    ELSE IF level.number < 100
    THEN Returned(Some(IF level.number + 1 < 100 THEN level.number + 1 ELSE 100))
    ELSE Returned(Nothing)

\* async_volume_down: `level is not None and level > 0`, max(0, level - 0.01)
async_volume_down(level) ==
    IF level = Absent THEN Returned(Nothing)
    ELSE IF level = Text(STATE_UNKNOWN) THEN Raised("TypeError")
    ELSE IF level.number > 0
    THEN Returned(Some(IF level.number - 1 > 0 THEN level.number - 1 ELSE 0))
    ELSE Returned(Nothing)

VolumeSteps == { "volume_up", "volume_down" }

async_volume_step(op, level) ==
    IF op = "volume_up" THEN async_volume_up(level) ELSE async_volume_down(level)

\* volumes of the device's zone and group: none, the two ends of the range,
\* one step from the upper end, and the middle
StepVolumes == { Nothing, Some(0), Some(50), Some(99), Some(100) }

\* the status snapshots: source 0 plays stream 1000 in zone 0; the zone's
\* volume varies without a group, the group's volume with the zone at 50
VsSnapshots ==
    LET sources0 == <<Source(0, StreamInput(1000), Info(Str_playing, NoneStr))>>
        streams0 == <<Stream(1000, Str_Radio)>>
    IN  { Status(sources0, <<ZoneV(0, 0, FALSE, v, Some(FALSE))>>, <<>>, streams0) :
              v \in StepVolumes }
          \cup { Status(sources0, <<ZoneV(0, 0, FALSE, Some(50), Some(FALSE))>>,
                        <<GroupV(0, 0, <<0>>, v, Some(FALSE))>>, streams0) : v \in StepVolumes }

\* async_setup_entry: one entity of the first status
InitVolumeStep ==
    /\ \E first \in VsSnapshots :
          \/ /\ src = AmpliPiSource_init(first.sources[1], first.streams)
             /\ zg = Absent /\ strm = Absent
          \/ /\ zg = AmpliPiZone_init(first.zones[1], Absent, first.streams, first.sources)
             /\ src = Absent /\ strm = Absent
          \/ /\ first.groups # <<>>
             /\ zg = AmpliPiZone_init(Absent, first.groups[1], first.streams, first.sources)
             /\ src = Absent /\ strm = Absent
          \/ /\ strm = AmpliPiStream_init(first.streams[1], first.sources)
             /\ src = Absent /\ zg = Absent
    /\ src_last = Absent
    /\ zg_pc = "idle" /\ zg_tmp = Absent /\ zg_last = Absent
    /\ calls = <<>>
    /\ cmd = [op |-> "none"]
    /\ NamesIdle /\ CodecIdle /\ UrlIdle /\ AnnIdle /\ InstallIdle

VsFrame == UNCHANGED <<src_last, zg_pc, zg_tmp, zg_last, namesVars, codecVars, urlVars, annVars, installVars>>

VsStepped(op, level, requested, raised) ==
    [op |-> op, level |-> level, requested |-> requested, raised |-> raised]

\* the polls of the three entities
VsSourceUpdate ==
    /\ src # Absent
    /\ \E fetched \in VsSnapshots \cup {FetchFailed} :
          src' = AmpliPiSource_async_update(src, fetched)
    /\ calls' = <<Call("get_status", Nothing)>>
    /\ cmd' = VsStepped("update", Absent, Nothing, "no")
    /\ UNCHANGED <<zg, strm>>
    /\ VsFrame

\* between the get_status() calls of one update the device's status stays, or
\* the device stops answering
VsZoneUpdate ==
    /\ zg # Absent
    /\ \E fetched1 \in VsSnapshots \cup {FetchFailed} :
       \E fetched2, fetched3 \in {fetched1, FetchFailed} :
          LET r == AmpliPiZone_async_update(zg, fetched1, fetched2, fetched3)
          IN  /\ zg' = r.self
              /\ calls' = ZgStatusCalls(zg, fetched1, fetched2, fetched3)
              /\ cmd' = VsStepped("update", Absent, Nothing, r.raised)
    /\ UNCHANGED <<src, strm>>
    /\ VsFrame

VsStreamUpdate ==
    /\ strm # Absent
    /\ \E fetched \in VsSnapshots \cup {FetchFailed} :
          LET r == AmpliPiStream_async_update(strm, fetched)
          IN  /\ strm' = r.self
              /\ cmd' = VsStepped("update", Absent, Nothing, r.raised)
    /\ calls' = <<Call("get_status", Nothing)>>
    /\ UNCHANGED <<src, zg>>
    /\ VsFrame

\* AmpliPiSource.async_volume_up / async_volume_down and the
\* async_set_volume_level they end in
SrcVolumeStep(op) ==
    /\ src # Absent
    /\ LET level == AmpliPiSource_volume_level(src)
           request == async_volume_step(op, level)
           written == AmpliPiSource_write_volume(src, request.value)
           call == Call("set_zones", AmpliPiSource_multi_zone_update(src, [vol_f |-> request.value]))
       IN  IF request.raised # "no" \/ IsNone(request.value)
           THEN /\ src' = src
                /\ calls' = <<>>
                /\ cmd' = VsStepped(op, level, Nothing, request.raised)
           ELSE \/ /\ src' = written
                   /\ calls' = <<call>>
                   /\ cmd' = VsStepped(op, level, request.value, "DeviceError")
                \/ /\ \E fetched \in VsSnapshots \cup {FetchFailed} :
                         src' = AmpliPiSource_async_update(written, fetched)
                   /\ calls' = <<call, Call("get_status", Nothing)>>
                   /\ cmd' = VsStepped(op, level, request.value, "no")
    /\ UNCHANGED <<zg, strm>>
    /\ VsFrame

\* AmpliPiZone.async_volume_up / async_volume_down
ZgVolumeStep(op) ==
    /\ zg # Absent
    /\ LET level == AmpliPiZone_volume_level(zg)
           request == async_volume_step(op, level)
           written == AmpliPiZone_write_volume(zg, request.value)
           call == AmpliPiZone_update_call(zg, [vol_f |-> request.value])
       IN  IF request.raised # "no" \/ IsNone(request.value)
           THEN /\ zg' = zg
                /\ calls' = <<>>
                /\ cmd' = VsStepped(op, level, Nothing, request.raised)
           ELSE \/ /\ zg' = written
                   /\ calls' = <<call>>
                   /\ cmd' = VsStepped(op, level, request.value, "DeviceError")
                \/ \E fetched1 \in VsSnapshots \cup {FetchFailed} :
                   \E fetched2, fetched3 \in {fetched1, FetchFailed} :
                      LET r == AmpliPiZone_async_update(written, fetched1, fetched2, fetched3)
                      IN  /\ zg' = r.self
                          /\ calls' = <<call>> \o ZgStatusCalls(written, fetched1, fetched2, fetched3)
                          /\ cmd' = VsStepped(op, level, request.value, r.raised)
    /\ UNCHANGED <<src, strm>>
    /\ VsFrame

\* AmpliPiStream.async_volume_up / async_volume_down; _update_zones reads the
\* device's zones, sends the update, and fetches the status
StrmVolumeStep(op) ==
    /\ strm # Absent
    /\ LET level == AmpliPiStream_volume_level(strm)
           request == async_volume_step(op, level)
       IN  IF request.raised # "no" \/ IsNone(request.value) \/ strm._current_source = Absent
           THEN /\ strm' = strm
                /\ calls' = <<>>
                /\ cmd' = VsStepped(op, level, Nothing, request.raised)
           ELSE \/ /\ strm' = strm
                   /\ calls' = <<Call("get_zones", Nothing)>>
                   /\ cmd' = VsStepped(op, level, request.value, "DeviceError")
                \/ \E device \in VsSnapshots :
                      LET mine == SelectSeq(device.zones, LAMBDA z : z.source_id = strm._current_source.id)
                          sent == [groups |-> strm._current_groups, zones |-> mine,
                                   update |-> [vol_f |-> request.value]]
                      IN  \/ /\ strm' = strm
                             /\ calls' = <<Call("get_zones", Nothing), Call("set_zones", sent)>>
                             /\ cmd' = VsStepped(op, level, request.value, "DeviceError")
                          \/ \E fetched \in {device, FetchFailed} :
                                LET r == AmpliPiStream_async_update(strm, fetched)
                                IN  /\ strm' = r.self
                                    /\ calls' = <<Call("get_zones", Nothing), Call("set_zones", sent),
                                                  Call("get_status", Nothing)>>
                                    /\ cmd' = VsStepped(op, level, request.value, r.raised)
    /\ UNCHANGED <<src, zg>>
    /\ VsFrame

NextVolumeStep ==
    \/ VsSourceUpdate
    \/ VsZoneUpdate
    \/ VsStreamUpdate
    \/ \E op \in VolumeSteps : SrcVolumeStep(op)
    \/ \E op \in VolumeSteps : ZgVolumeStep(op)
    \/ \E op \in VolumeSteps : StrmVolumeStep(op)

SpecVolumeStep == InitVolumeStep /\ [][NextVolumeStep]_vars

\* the volume a device call of the step asked for
VsSentVolumes ==
    { calls[i].arg.update.vol_f : i \in { j \in DOMAIN calls : calls[j].fn \in {"set_zone", "set_zones"} } }

\* C36: volume_up and volume_down of a source, zone, group or stream entity
\* ask for the current volume plus or minus one hundredth kept within 0..100
\* and never for a value outside; at the end of the range, and when the
\* entity's volume is unknown, they make no device call and raise nothing
C36_VolumeStepClamped ==
    cmd.op \in VolumeSteps =>
        /\ cmd.raised # "TypeError"
        /\ \A v \in VsSentVolumes : v = cmd.requested /\ v[1] \in 0..100
        /\ cmd.level \in {Absent, Text(STATE_UNKNOWN)} =>
              calls = <<>> /\ cmd.raised = "no"
        /\ (cmd.op = "volume_up" /\ cmd.level = Num(100)) => calls = <<>>
        /\ (cmd.op = "volume_down" /\ cmd.level = Num(0)) => calls = <<>>
        /\ (cmd.op = "volume_up" /\ cmd.level \in {Num(n) : n \in 0..99}) =>
              cmd.requested = Some(cmd.level.number + 1)
        /\ (cmd.op = "volume_down" /\ cmd.level \in {Num(n) : n \in 1..100}) =>
              cmd.requested = Some(cmd.level.number - 1)

(***************************************************************************)
(* Specification SpecSourceList: one AmpliPiSource entity of a device with *)
(* two sources, polled; the streams include the inputs the device ties to  *)
(* a source (996 + source id) and one below them.  cmd records the fetched *)
(* status and the stream list the cache was last filled from.              *)
(***************************************************************************)
\* the source property: the source's own name on 'local', the name of the
\* current stream if there is one, and else the string 'None'
AmpliPiSource_source(self) ==
    IF self._source # Absent /\ self._source.input = Str_local THEN self._source.name
    ELSE IF self._source # Absent /\ self._current_stream # Absent THEN self._current_stream.name
    ELSE Str_None

\* a faulty variant of source_list: every cached stream is listed
AmpliPiSource_source_list_unfiltered(self) ==
    <<Str_None>> \o [i \in DOMAIN self._streams |-> self._streams[i].name]

\* ['None'] + [stream.name for stream in self._streams
\*             if stream.id >= 1000 or stream.id - 996 == self._id]
AmpliPiSource_source_list(self) ==
    LET listed == SelectSeq(self._streams, LAMBDA stream : stream.id >= 1000 \/ stream.id - 996 = self._id)
    IN  <<Str_None>> \o [i \in DOMAIN listed |-> listed[i].name]

Str_In == <<"I", "n">>

SlStreamLists ==
    { <<>>,
      <<Stream(995, <<"A", "u", "x">>), Stream(996, Str_In), Stream(997, Str_In), Stream(1000, Str_Radio)>>,
      <<Stream(1001, MARKER), Stream(997, Str_In), Stream(10000, Str_Radio), Stream(996, Str_In)>> }

\* inputs of a source: 'local', 'None', '', a stream, the two inputs tied to
\* a source, the stream below them, and a stream no list holds
SlInputs ==
    { Str_local, Str_None, <<>>, StreamInput(1000), StreamInput(996), StreamInput(997),
      StreamInput(995), StreamInput(1002) }

SlSourceLists ==
    { <<Source(0, input, Absent), Source(1, Str_local, Absent)>> : input \in SlInputs }
      \cup { <<Source(0, Str_local, Absent), Source(1, input, Absent)>> : input \in SlInputs }
      \cup { <<>> }

SlSnapshots ==
    { Status(sources, <<>>, <<>>, streams) : sources \in SlSourceLists, streams \in SlStreamLists }

\* async_setup_entry: one AmpliPiSource per source of the first status
InitSourceList ==
    /\ \E first \in SlSnapshots : \E i \in DOMAIN first.sources :
          /\ src = AmpliPiSource_init(first.sources[i], first.streams)
          /\ cmd = [op |-> "none", fetched |-> FetchFailed, streams |-> first.streams]
    /\ src_last = Absent
    /\ calls = <<>>
    /\ NamesIdle /\ CodecIdle /\ UrlIdle /\ ZgIdle /\ StrmIdle /\ AnnIdle /\ InstallIdle

\* the source of a status that carries the id `id`
SlOwnSource(fetched, id) ==
    IF fetched = FetchFailed THEN Absent
    ELSE FirstMatch(fetched.sources, {i \in DOMAIN fetched.sources : fetched.sources[i].id = id}, Absent)

\* the poll of the entity
SlUpdate ==
    /\ src # Absent
    /\ \E fetched \in SlSnapshots \cup {FetchFailed} :
          /\ src' = AmpliPiSource_async_update(src, fetched)
          /\ cmd' = [op |-> "update", fetched |-> fetched,
                     streams |-> IF SlOwnSource(fetched, src._id) = Absent THEN cmd.streams
                                 ELSE fetched.streams]
    /\ calls' = <<Call("get_status", Nothing)>>
    /\ UNCHANGED <<src_last, namesVars, codecVars, urlVars, zgVars, strmVars, annVars, installVars>>

NextSourceList == SlUpdate

SpecSourceList == InitSourceList /\ [][NextSourceList]_vars

\* the elements of a sequence
SlElements(seq) == { seq[i] : i \in DOMAIN seq }

\* C38: the source_list of the source entity with id k is 'None' followed by
\* the normalized names, in the order of the status, of exactly the cached
\* streams whose id is at least 1000 or is 996 + k; the input tied to another
\* source (996 + j, j # k) is never in it
C38_SourceListFiltered ==
    LET wanted == SelectSeq(cmd.streams, LAMBDA stream : stream.id >= 1000 \/ stream.id = 996 + src._id)
    IN  /\ AmpliPiSource_source_list(src) =
              <<Str_None>> \o [i \in DOMAIN wanted |-> process_one(wanted[i]).name]
        /\ \A i \in DOMAIN cmd.streams :
              (cmd.streams[i].id \in 996..999 /\ cmd.streams[i].id # 996 + src._id)
                  => process_one(cmd.streams[i]).name \notin SlElements(AmpliPiSource_source_list(src))

\* the entity of the second source lists its own input 997 between two
\* streams, in the order of the status, and not the input 996
C38_Witness ==
    /\ src._id = 1
    /\ cmd.op = "update"
    /\ AmpliPiSource_source_list(src) =
          <<Str_None, MARKER, PrefixedName(Stream(997, Str_In)), PrefixedName(Stream(10000, Str_Radio))>>

\* C39: after a successful update of a source entity the source property is
\* the source's own name on input 'local', the normalized name of the stream
\* on input 'stream={id}' with that stream in the status, and 'None' else;
\* the value is always in source_list or is the source's own name
C39_SourceIsListed ==
    (cmd.fetched # FetchFailed /\ SlOwnSource(cmd.fetched, src._id) # Absent) =>
        LET own == SlOwnSource(cmd.fetched, src._id)
            attached == { i \in DOMAIN cmd.fetched.streams :
                              own.input = StreamInput(cmd.fetched.streams[i].id) }
        IN  /\ own.input = Str_local => AmpliPiSource_source(src) = own.name
            /\ \A i \in attached :
                  AmpliPiSource_source(src) = process_one(cmd.fetched.streams[i]).name
            /\ (own.input # Str_local /\ attached = {}) => AmpliPiSource_source(src) = Str_None
            /\ AmpliPiSource_source(src) \in SlElements(AmpliPiSource_source_list(src)) \cup {own.name}

====
